---- MODULE Spec2Model ----
(***************************************************************************)
(* A model of the 6502 emulator's I/O cards and of the Machine that drives *)
(* them.  Each card is a group of variables; each public method of a card  *)
(* is one action.  Registers are kept as the integers the code keeps, and  *)
(* the bit operations of the code are computed bit by bit.                 *)
(***************************************************************************)
EXTENDS Integers, Sequences, FiniteSets, TLC

(***************************************************************************)
(* Bit operations on non-negative integers (JavaScript &, |, ^, & ~m).     *)
(***************************************************************************)
RECURSIVE BitAnd(_, _)
BitAnd(a, b) ==
  IF a = 0 \/ b = 0 THEN 0
  ELSE (a % 2) * (b % 2) + 2 * BitAnd(a \div 2, b \div 2)

RECURSIVE BitOr(_, _)
BitOr(a, b) ==
  IF a = 0 THEN b
  ELSE IF b = 0 THEN a
  ELSE (IF a % 2 = 1 \/ b % 2 = 1 THEN 1 ELSE 0) + 2 * BitOr(a \div 2, b \div 2)

RECURSIVE BitXor(_, _)
BitXor(a, b) ==
  IF a = 0 THEN b
  ELSE IF b = 0 THEN a
  ELSE (IF a % 2 = b % 2 THEN 0 ELSE 1) + 2 * BitXor(a \div 2, b \div 2)

\* x & ~m : the bits of m removed from x
AndNot(x, m) == x - BitAnd(x, m)

\* bit number i of x, as 0 or 1
Bit(x, i) == (x \div (2 ^ i)) % 2

\* the set of bit numbers that are 1 in the byte x
Bits(x) == {i \in 0..7 : Bit(x, i) = 1}

(***************************************************************************)
(* GPIOCard: the 65C22 VIA.                                                *)
(***************************************************************************)
VARIABLES
  via,          \* the GPIOCard object: its registers, control lines, timers, port lists
  att,          \* the GPIOAttachment objects, by identity
  viaIrqCalls,  \* how many times the card has invoked its raiseIRQ callback
  viaOp         \* the last call made on the card: [op, reg, value, ret]

\* register offsets
VIA_ORB == 0
VIA_ORA == 1
VIA_DDRB == 2
VIA_DDRA == 3
VIA_T1CL == 4
VIA_T1CH == 5
VIA_T1LL == 6
VIA_T1LH == 7
VIA_T2CL == 8
VIA_T2CH == 9
VIA_SR == 10
VIA_ACR == 11
VIA_PCR == 12
VIA_IFR == 13
VIA_IER == 14
VIA_ORA_NH == 15

\* interrupt flags
IRQ_CA2 == 1
IRQ_CA1 == 2
IRQ_SR == 4
IRQ_CB2 == 8
IRQ_CB1 == 16
IRQ_T2 == 32
IRQ_T1 == 64
IRQ_IRQ == 128

MAX_ATTACHMENTS_PER_PORT == 8

\* The attachment objects that exist, named as the Machine names the three it
\* constructs, and the priority each is constructed with.  The card sees them
\* only through the GPIOAttachment interface.
AttIds == {"matrix", "encoder", "joystick"}
AttPriority(id) ==
  CASE id = "matrix" -> 10
    [] id = "encoder" -> 20
    [] id = "joystick" -> 100

\* GPIOCard.reset: every register, control line and timer state, and both
\* attachment counts, which empties the two port lists.  tickCounter,
\* ticksPerMicrosecond and T1/T2_IRQ_enabled are written but never read and
\* are left out.
ViaResetState ==
  [ regORB |-> 0, regORA |-> 0, regDDRB |-> 0, regDDRA |-> 0,
    regT1C |-> 65535, regT1L |-> 65535, regT2C |-> 65535, regT2L |-> 255,
    regSR |-> 0, regACR |-> 0, regPCR |-> 0, regIFR |-> 0, regIER |-> 0,
    CA1 |-> FALSE, CA2 |-> FALSE, CB1 |-> FALSE, CB2 |-> FALSE,
    T1_running |-> FALSE, T2_running |-> FALSE,
    portA_attachments |-> << >>, portB_attachments |-> << >> ]

\* GPIOCard.updateIRQ
updateIRQ(v) ==
  IF BitAnd(BitAnd(v.regIFR, v.regIER), 127) # 0
  THEN [v EXCEPT !.regIFR = BitOr(@, IRQ_IRQ)]
  ELSE [v EXCEPT !.regIFR = AndNot(@, IRQ_IRQ)]

\* GPIOCard.setIRQFlag
setIRQFlag(v, flag) == updateIRQ([v EXCEPT !.regIFR = BitOr(@, flag)])

\* GPIOCard.clearIRQFlag
clearIRQFlag(v, flag) == updateIRQ([v EXCEPT !.regIFR = AndNot(@, flag)])

\* A variant of the loop of readPortA/readPortB that takes the data of every
\* attachment of the list, enabled or not.
RECURSIVE externalInputAll(_, _, _, _)
externalInputAll(list, n, a, port) ==
  IF n = 0 THEN 255
  ELSE BitAnd(externalInputAll(list, n - 1, a, port),
              IF port = "A" THEN a[list[n]].portAValue ELSE a[list[n]].portBValue)

\* The loop of readPortA/readPortB over the first n entries of a port list:
\* externalInput &= attachmentData for each enabled attachment.
RECURSIVE externalInput(_, _, _, _)
externalInput(list, n, a, port) ==
  IF n = 0 THEN 255
  ELSE LET rest == externalInput(list, n - 1, a, port)
           obj == a[list[n]]
       IN  IF obj.enabled
           THEN BitAnd(rest, IF port = "A" THEN obj.portAValue ELSE obj.portBValue)
           ELSE rest

\* The DDR loop of readPortA/readPortB: bit by bit, the output register where
\* the DDR bit is 1 and the external input where it is 0.
RECURSIVE applyDDR(_, _, _, _)
applyDDR(ddr, or, ext, bit) ==
  IF bit = 8 THEN 0
  ELSE (IF Bit(ddr, bit) = 1 THEN Bit(or, bit) ELSE Bit(ext, bit)) * (2 ^ bit)
       + applyDDR(ddr, or, ext, bit + 1)

\* GPIOCard.readPortA
readPortA(v, a) ==
  applyDDR(v.regDDRA, v.regORA,
           externalInput(v.portA_attachments, Len(v.portA_attachments), a, "A"), 0)

\* GPIOCard.readPortB
readPortB(v, a) ==
  applyDDR(v.regDDRB, v.regORB,
           externalInput(v.portB_attachments, Len(v.portB_attachments), a, "B"), 0)

\* GPIOAttachmentBase.clearInterrupts on one attachment object
clearInterrupts(obj, ca1, ca2, cb1, cb2) ==
  [obj EXCEPT !.ca1Interrupt = IF ca1 THEN FALSE ELSE @,
              !.ca2Interrupt = IF ca2 THEN FALSE ELSE @,
              !.cb1Interrupt = IF cb1 THEN FALSE ELSE @,
              !.cb2Interrupt = IF cb2 THEN FALSE ELSE @]

\* The notification loop of GPIOCard.read: clearInterrupts on every attachment
\* of a port list.
notifyCleared(list, a, ca1, ca2, cb1, cb2) ==
  [id \in DOMAIN a |->
     IF \E i \in 1..Len(list) : list[i] = id
     THEN clearInterrupts(a[id], ca1, ca2, cb1, cb2)
     ELSE a[id]]

\* GPIOCard.read: the card and the attachments after the read, and the value
\* returned.  A port value is read before the attachments are notified.
viaRead(v, a, address) ==
  LET reg == address % 16
      cb  == clearIRQFlag(v, BitOr(IRQ_CB1, IRQ_CB2))
      ca  == clearIRQFlag(v, BitOr(IRQ_CA1, IRQ_CA2))
  IN
  CASE reg = VIA_ORB ->
         [ via |-> cb,
           att |-> notifyCleared(cb.portB_attachments, a, FALSE, FALSE, TRUE, TRUE),
           value |-> readPortB(cb, a) % 256 ]
    [] reg = VIA_ORA ->
         [ via |-> ca,
           att |-> notifyCleared(ca.portA_attachments, a, TRUE, TRUE, FALSE, FALSE),
           value |-> readPortA(ca, a) % 256 ]
    [] reg = VIA_DDRB -> [via |-> v, att |-> a, value |-> v.regDDRB % 256]
    [] reg = VIA_DDRA -> [via |-> v, att |-> a, value |-> v.regDDRA % 256]
    [] reg = VIA_T1CL ->
         [via |-> clearIRQFlag(v, IRQ_T1), att |-> a, value |-> v.regT1C % 256]
    [] reg = VIA_T1CH -> [via |-> v, att |-> a, value |-> (v.regT1C \div 256) % 256]
    [] reg = VIA_T1LL -> [via |-> v, att |-> a, value |-> v.regT1L % 256]
    [] reg = VIA_T1LH -> [via |-> v, att |-> a, value |-> (v.regT1L \div 256) % 256]
    [] reg = VIA_T2CL ->
         [via |-> clearIRQFlag(v, IRQ_T2), att |-> a, value |-> v.regT2C % 256]
    [] reg = VIA_T2CH -> [via |-> v, att |-> a, value |-> (v.regT2C \div 256) % 256]
    [] reg = VIA_SR ->
         [via |-> clearIRQFlag(v, IRQ_SR), att |-> a, value |-> v.regSR % 256]
    [] reg = VIA_ACR -> [via |-> v, att |-> a, value |-> v.regACR % 256]
    [] reg = VIA_PCR -> [via |-> v, att |-> a, value |-> v.regPCR % 256]
    [] reg = VIA_IFR ->
         [ via |-> v, att |-> a,
           value |-> (IF BitAnd(BitAnd(v.regIFR, v.regIER), 127) # 0
                      THEN BitOr(v.regIFR, IRQ_IRQ) ELSE v.regIFR) % 256 ]
    [] reg = VIA_IER -> [via |-> v, att |-> a, value |-> BitOr(v.regIER, 128) % 256]
    [] reg = VIA_ORA_NH -> [via |-> v, att |-> a, value |-> readPortA(v, a) % 256]

\* GPIOCard.updateCA2: PCR bits 1-3; 6 drives CA2 low, 7 drives it high.  The
\* control-line notification it ends with is a no-op in GPIOAttachmentBase.
updateCA2(v) ==
  LET ca2_control == (v.regPCR \div 2) % 8 IN
  IF ca2_control = 6 THEN [v EXCEPT !.CA2 = FALSE]
  ELSE IF ca2_control = 7 THEN [v EXCEPT !.CA2 = TRUE]
  ELSE v

\* GPIOCard.updateCB2: PCR bits 5-7
updateCB2(v) ==
  LET cb2_control == (v.regPCR \div 32) % 8 IN
  IF cb2_control = 6 THEN [v EXCEPT !.CB2 = FALSE]
  ELSE IF cb2_control = 7 THEN [v EXCEPT !.CB2 = TRUE]
  ELSE v

\* A variant of the IER write that stores the low seven bits of the value
\* instead of setting or clearing them.
writeIERStore(v, value) == updateIRQ([v EXCEPT !.regIER = BitAnd(value, 127)])

\* The IER case of GPIOCard.write: bit 7 of the value chooses set or clear.
writeIER(v, value) ==
  updateIRQ(IF BitAnd(value, 128) # 0
            THEN [v EXCEPT !.regIER = BitOr(@, BitAnd(value, 127))]
            ELSE [v EXCEPT !.regIER = AndNot(@, BitAnd(value, 127))])

\* GPIOCard.write: the card after the write.  writePortA/writePortB and
\* updateControlLines of GPIOAttachmentBase do nothing, so the attachments
\* are as they were.
viaWrite(v, address, data) ==
  LET reg == address % 16
      value == data % 256
  IN
  CASE reg = VIA_ORB ->
         [clearIRQFlag(v, BitOr(IRQ_CB1, IRQ_CB2)) EXCEPT !.regORB = value]
    [] reg = VIA_ORA ->
         [clearIRQFlag(v, BitOr(IRQ_CA1, IRQ_CA2)) EXCEPT !.regORA = value]
    [] reg = VIA_DDRB -> [v EXCEPT !.regDDRB = value]
    [] reg = VIA_DDRA -> [v EXCEPT !.regDDRA = value]
    [] reg \in {VIA_T1CL, VIA_T1LL} ->
         [v EXCEPT !.regT1L = BitOr(BitAnd(@, 65280), value)]
    [] reg = VIA_T1CH ->
         LET latch == BitOr(BitAnd(v.regT1L, 255), value * 256) IN
         [clearIRQFlag([v EXCEPT !.regT1L = latch, !.regT1C = latch], IRQ_T1)
            EXCEPT !.T1_running = TRUE]
    [] reg = VIA_T1LH ->
         clearIRQFlag([v EXCEPT !.regT1L = BitOr(BitAnd(@, 255), value * 256)], IRQ_T1)
    [] reg = VIA_T2CL -> [v EXCEPT !.regT2L = value]
    [] reg = VIA_T2CH ->
         [clearIRQFlag([v EXCEPT !.regT2C = BitOr(value * 256, v.regT2L)], IRQ_T2)
            EXCEPT !.T2_running = TRUE]
    [] reg = VIA_SR -> clearIRQFlag([v EXCEPT !.regSR = value], IRQ_SR)
    [] reg = VIA_ACR -> [v EXCEPT !.regACR = value]
    [] reg = VIA_PCR -> updateCB2(updateCA2([v EXCEPT !.regPCR = value]))
    [] reg = VIA_IFR -> updateIRQ([v EXCEPT !.regIFR = AndNot(@, BitAnd(value, 127))])
    [] reg = VIA_IER -> writeIER(v, value)
    [] reg = VIA_ORA_NH -> [v EXCEPT !.regORA = value]

\* A variant of the Timer 1 countdown that never sets the T1 flag.
tickT1Silent(v) ==
  IF v.T1_running /\ v.regT1C > 0
  THEN IF v.regT1C = 1
       THEN IF BitAnd(v.regACR, 64) # 0
            THEN [v EXCEPT !.regT1C = v.regT1L]
            ELSE [v EXCEPT !.regT1C = 0, !.T1_running = FALSE]
       ELSE [v EXCEPT !.regT1C = @ - 1]
  ELSE v

\* A variant of the Timer 1 countdown that leaves the counter at 0 when it
\* expires in free-run mode and reloads it from the latch one tick later.
tickT1ReloadLater(v) ==
  IF v.T1_running /\ v.regT1C > 0
  THEN IF v.regT1C = 1
       THEN LET f == setIRQFlag([v EXCEPT !.regT1C = 0], IRQ_T1) IN
            IF BitAnd(f.regACR, 64) # 0 THEN f ELSE [f EXCEPT !.T1_running = FALSE]
       ELSE [v EXCEPT !.regT1C = @ - 1]
  ELSE IF v.T1_running /\ BitAnd(v.regACR, 64) # 0
       THEN [v EXCEPT !.regT1C = v.regT1L]
       ELSE v

\* The Timer 1 part of GPIOCard.tick
tickT1(v) ==
  IF v.T1_running /\ v.regT1C > 0
  THEN LET c == v.regT1C - 1 IN
       IF c = 0
       THEN LET f == setIRQFlag([v EXCEPT !.regT1C = 0], IRQ_T1)
                r == IF BitAnd(f.regACR, 64) # 0
                     THEN [f EXCEPT !.regT1C = f.regT1L]
                     ELSE [f EXCEPT !.T1_running = FALSE]
            IN  IF BitAnd(r.regACR, 128) # 0
                THEN [r EXCEPT !.regORB = BitXor(@, 128)]
                ELSE r
       ELSE [v EXCEPT !.regT1C = c]
  ELSE v

\* The Timer 2 part of GPIOCard.tick
tickT2(v) ==
  IF v.T2_running /\ v.regT2C > 0
  THEN LET c == v.regT2C - 1 IN
       IF c = 0
       THEN [setIRQFlag([v EXCEPT !.regT2C = 0], IRQ_T2) EXCEPT !.T2_running = FALSE]
       ELSE [v EXCEPT !.regT2C = c]
  ELSE v

\* The attachment poll of GPIOCard.tick: a flag is set for each line some
\* attachment of the port's list reports pending.
pollAttachments(v, a) ==
  LET A == v.portA_attachments
      B == v.portB_attachments
      s1 == IF \E i \in 1..Len(A) : a[A[i]].ca1Interrupt THEN setIRQFlag(v, IRQ_CA1) ELSE v
      s2 == IF \E i \in 1..Len(A) : a[A[i]].ca2Interrupt THEN setIRQFlag(s1, IRQ_CA2) ELSE s1
      s3 == IF \E i \in 1..Len(B) : a[B[i]].cb1Interrupt THEN setIRQFlag(s2, IRQ_CB1) ELSE s2
  IN  IF \E i \in 1..Len(B) : a[B[i]].cb2Interrupt THEN setIRQFlag(s3, IRQ_CB2) ELSE s3

\* The last statement of GPIOCard.tick: whether raiseIRQ is invoked
irqActive(v) == BitAnd(BitAnd(v.regIFR, v.regIER), 127) # 0

\* GPIOCard.tick: the card after the tick (GPIOAttachmentBase.tick does nothing)
viaTick(v, a) == pollAttachments(tickT2(tickT1(v)), a)

\* One pass of the inner loop of sortAttachmentsByPriority over positions j..last
RECURSIVE bubblePass(_, _, _)
bubblePass(list, j, last) ==
  IF j > last THEN list
  ELSE IF AttPriority(list[j]) > AttPriority(list[j + 1])
       THEN bubblePass([list EXCEPT ![j] = list[j + 1], ![j + 1] = list[j]], j + 1, last)
       ELSE bubblePass(list, j + 1, last)

\* A list left as it is
bubbleSortSkipped(list, i) == list

\* The bubble sort of one port list in sortAttachmentsByPriority: pass i
\* compares positions 1..count-i-1 with their right neighbours.
RECURSIVE bubbleSort(_, _)
bubbleSort(list, i) ==
  IF i >= Len(list) - 1 THEN list
  ELSE bubbleSort(bubblePass(list, 1, Len(list) - i - 1), i + 1)

\* GPIOCard.sortAttachmentsByPriority: both lists
sortAttachmentsByPriority(v) ==
  [v EXCEPT !.portA_attachments = bubbleSort(@, 0),
            !.portB_attachments = bubbleSort(@, 0)]

\* GPIOCard.attachToPortA
attachToPortA(v, id) ==
  IF Len(v.portA_attachments) < MAX_ATTACHMENTS_PER_PORT
  THEN sortAttachmentsByPriority([v EXCEPT !.portA_attachments = Append(@, id)])
  ELSE v

\* GPIOCard.attachToPortB
attachToPortB(v, id) ==
  IF Len(v.portB_attachments) < MAX_ATTACHMENTS_PER_PORT
  THEN sortAttachmentsByPriority([v EXCEPT !.portB_attachments = Append(@, id)])
  ELSE v

\* A GPIOAttachmentBase object after construction.  portAValue/portBValue are
\* what its readPortA/readPortB return: 0xFF in the base class.
AttInit ==
  [ enabled |-> TRUE, portAValue |-> 255, portBValue |-> 255,
    ca1Interrupt |-> FALSE, ca2Interrupt |-> FALSE,
    cb1Interrupt |-> FALSE, cb2Interrupt |-> FALSE ]

\* Observer of the call sequence IER := 0xC0, T1 low := 0x01, T1 high := 0x00,
\* tick, tick on a newly constructed card: how many of these calls have been
\* made, or -1 once the calls made so far are not a prefix of the sequence.
irqScenarioNext(s, o) ==
  IF s = 0 /\ o.op = "write" /\ o.reg = VIA_IER /\ o.value = 192 THEN 1
  ELSE IF s = 1 /\ o.op = "write" /\ o.reg = VIA_T1CL /\ o.value = 1 THEN 2
  ELSE IF s = 2 /\ o.op = "write" /\ o.reg = VIA_T1CH /\ o.value = 0 THEN 3
  ELSE IF s \in {3, 4} /\ o.op = "tick" THEN s + 1
  ELSE -1

VARIABLE viaScen   \* the observer irqScenarioNext of the calls made on the card

(***************************************************************************)
(* GPIOKeyboardEncoderAttachment: the keyboard encoder on the two ports.   *)
(***************************************************************************)
VARIABLES
  enc,     \* the fields of the GPIOKeyboardEncoderAttachment the Machine constructs
  encOp    \* the last call made on it: whether it was a key press that produced output

\* The keys of the USB HID table used here: 'a' (0x61) and '2' (0x32); a
\* keycode with no entry in the table maps to 0
HID_A == 4
HID_2 == 31

\* Left Ctrl
HID_LCTRL == 224

\* A GPIOKeyboardEncoderAttachment after construction.  Of the modifiers only
\* Ctrl is kept: Shift, Alt and Menu are never pressed here.  The control
\* line states it stores are never read.
EncNew ==
  [ asciiDataA |-> 0, dataReadyA |-> FALSE, interruptPendingA |-> FALSE, enabledA |-> FALSE,
    asciiDataB |-> 0, dataReadyB |-> FALSE, interruptPendingB |-> FALSE, enabledB |-> FALSE,
    ctrlPressed |-> FALSE ]

\* GPIOKeyboardEncoderAttachment.readPortA
encReadPortA(k) == IF k.enabledA /\ k.dataReadyA THEN k.asciiDataA ELSE 255

\* GPIOKeyboardEncoderAttachment.readPortB
encReadPortB(k) == IF k.enabledB /\ k.dataReadyB THEN k.asciiDataB ELSE 255

\* GPIOKeyboardEncoderAttachment.updateControlLines
encUpdateControlLines(k, ca1, ca2, cb1, cb2) ==
  [k EXCEPT !.enabledA = ~ca2, !.enabledB = ~cb2]

\* GPIOKeyboardEncoderAttachment.hasCA1Interrupt
encHasCA1Interrupt(k) == k.interruptPendingA /\ k.enabledA

\* GPIOKeyboardEncoderAttachment.hasCB1Interrupt
encHasCB1Interrupt(k) == k.interruptPendingB /\ k.enabledB

\* GPIOKeyboardEncoderAttachment.hasDataReadyA
hasDataReadyA(k) == k.dataReadyA /\ k.enabledA

\* GPIOKeyboardEncoderAttachment.hasDataReadyB
hasDataReadyB(k) == k.dataReadyB /\ k.enabledB

\* GPIOKeyboardEncoderAttachment.clearInterrupts
encClearInterrupts(k, ca1, ca2, cb1, cb2) ==
  LET a == IF ca1 THEN [k EXCEPT !.interruptPendingA = FALSE, !.dataReadyA = FALSE] ELSE k
  IN  IF cb1 THEN [a EXCEPT !.interruptPendingB = FALSE, !.dataReadyB = FALSE] ELSE a

\* GPIOKeyboardEncoderAttachment.mapKeyWithModifiers for the keys above, with
\* Alt and Shift up: Ctrl+a is 0x01 and Ctrl+2 is NUL
mapKeyWithModifiers(k, usbHidKeycode) ==
  LET baseChar == IF usbHidKeycode = HID_A THEN 97
                  ELSE IF usbHidKeycode = HID_2 THEN 50
                  ELSE 0
  IN  IF baseChar = 0 THEN 0
      ELSE IF k.ctrlPressed /\ baseChar = 97 THEN 1
      ELSE IF k.ctrlPressed /\ baseChar = 50 THEN 0
      ELSE baseChar

\* Whether updateKey produces output: a press of a key that is not a
\* modifier and that maps to a character (0x00 only with Ctrl down)
keyProducesOutput(k, usbHidKeycode, pressed) ==
  /\ usbHidKeycode # HID_LCTRL
  /\ pressed
  /\ ~(mapKeyWithModifiers(k, usbHidKeycode) = 0 /\ ~k.ctrlPressed)

\* GPIOKeyboardEncoderAttachment.updateKey
updateKey(k, usbHidKeycode, pressed) ==
  IF usbHidKeycode = HID_LCTRL THEN [k EXCEPT !.ctrlPressed = pressed]
  ELSE IF ~keyProducesOutput(k, usbHidKeycode, pressed) THEN k
  ELSE LET mappedValue == mapKeyWithModifiers(k, usbHidKeycode) IN
       [k EXCEPT !.asciiDataA = mappedValue, !.asciiDataB = mappedValue,
                 !.dataReadyA = TRUE, !.dataReadyB = TRUE,
                 !.interruptPendingA = IF k.enabledA THEN TRUE ELSE @,
                 !.interruptPendingB = IF k.enabledB THEN TRUE ELSE @]

\* The encoder as the card sees it through the GPIOAttachment interface:
\* isEnabled and hasCA2/CB2Interrupt are those of GPIOAttachmentBase after
\* reset()
encView(k) ==
  [ AttInit EXCEPT !.portAValue = encReadPortA(k), !.portBValue = encReadPortB(k),
                   !.ca1Interrupt = encHasCA1Interrupt(k),
                   !.cb1Interrupt = encHasCB1Interrupt(k) ]

\* The attachment objects with the encoder in the place of "encoder"
withEncoder(a, k) == [a EXCEPT !["encoder"] = encView(k)]

\* Whether the encoder is on one of the two port lists of the card
encAttached(v, port) ==
  LET list == IF port = "A" THEN v.portA_attachments ELSE v.portB_attachments
  IN  \E i \in 1..Len(list) : list[i] = "encoder"

viaVars == <<via, att, viaIrqCalls, viaOp, viaScen, enc, encOp>>

\* What a call on the card leaves in viaOp and viaScen
viaRecord(o) ==
  /\ viaOp' = o
  /\ viaScen' = irqScenarioNext(viaScen, o)

\* io.read(address) on the card
VIA_Read(address) ==
  LET r == viaRead(via, att, address) IN
  /\ via' = r.via
  /\ att' = r.att
  /\ viaRecord([op |-> "read", reg |-> address % 16, value |-> 0, ret |-> r.value])
  /\ UNCHANGED <<viaIrqCalls, enc, encOp>>

\* io.write(address, data) on the card
VIA_Write(address, data) ==
  /\ via' = viaWrite(via, address, data)
  /\ viaRecord([op |-> "write", reg |-> address % 16, value |-> data % 256, ret |-> 0])
  /\ UNCHANGED <<att, viaIrqCalls, enc, encOp>>

\* io.tick(frequency) on the card; its last statement invokes raiseIRQ
VIA_Tick ==
  LET t == viaTick(via, att) IN
  /\ via' = t
  /\ viaIrqCalls' = IF irqActive(t) THEN viaIrqCalls + 1 ELSE viaIrqCalls
  /\ viaRecord([op |-> "tick", reg |-> 0, value |-> 0, ret |-> 0])
  /\ UNCHANGED <<att, enc, encOp>>

\* io.reset(coldStart) on the card.  The counts are zeroed before the loops
\* that would reset the attachments, so no attachment's reset() runs.
VIA_Reset ==
  /\ via' = ViaResetState
  /\ viaRecord([op |-> "reset", reg |-> 0, value |-> 0, ret |-> 0])
  /\ UNCHANGED <<att, viaIrqCalls, enc, encOp>>

\* attachToPortA(attachment) / attachToPortB(attachment)
VIA_Attach(port, id) ==
  /\ via' = IF port = "A" THEN attachToPortA(via, id) ELSE attachToPortB(via, id)
  /\ viaRecord([op |-> "attach", reg |-> 0, value |-> id, ret |-> 0])
  /\ UNCHANGED <<att, viaIrqCalls, enc, encOp>>

\* The device behind an attachment changes what the attachment reports:
\* the value of a port, whether it is enabled, or a pending interrupt line.
Att_Set(id, field, value) ==
  /\ att' = [att EXCEPT ![id][field] = value]
  /\ viaRecord([op |-> "device", reg |-> 0, value |-> id, ret |-> 0])
  /\ UNCHANGED <<via, viaIrqCalls, enc, encOp>>

\* A newly constructed GPIOCard and unattached attachments
ViaInit ==
  /\ via = ViaResetState
  /\ att = [id \in AttIds |-> AttInit]
  /\ viaIrqCalls = 0
  /\ viaOp = [op |-> "new", reg |-> 0, value |-> 0, ret |-> 0]
  /\ viaScen = 0
  /\ enc = EncNew
  /\ encOp = [op |-> "new", output |-> FALSE]

\* io.read(address) on the card that holds the encoder: the port is read
\* through the encoder's readPortA/readPortB, and a read of ORA or ORB then
\* calls clearInterrupts on the attachments of that port's list
Enc_ViaRead(address) ==
  LET reg == address % 16
      r == viaRead(via, withEncoder(att, enc), address)
  IN  /\ via' = r.via
      /\ enc' = IF reg = VIA_ORA /\ encAttached(via, "A")
                THEN encClearInterrupts(enc, TRUE, TRUE, FALSE, FALSE)
                ELSE IF reg = VIA_ORB /\ encAttached(via, "B")
                THEN encClearInterrupts(enc, FALSE, FALSE, TRUE, TRUE)
                ELSE enc
      /\ encOp' = [op |-> "read", output |-> FALSE]
      /\ viaRecord([op |-> "read", reg |-> reg, value |-> 0, ret |-> r.value])
      /\ UNCHANGED <<att, viaIrqCalls>>

\* io.write(address, data) on the card that holds the encoder: a write of
\* PCR ends with notifyAttachmentsControlLines, which calls
\* updateControlLines on the attachments of both lists
Enc_ViaWrite(address, data) ==
  LET w == viaWrite(via, address, data) IN
  /\ via' = w
  /\ enc' = IF address % 16 = VIA_PCR /\ (encAttached(via, "A") \/ encAttached(via, "B"))
            THEN encUpdateControlLines(enc, w.CA1, w.CA2, w.CB1, w.CB2)
            ELSE enc
  /\ encOp' = [op |-> "write", output |-> FALSE]
  /\ viaRecord([op |-> "write", reg |-> address % 16, value |-> data % 256, ret |-> 0])
  /\ UNCHANGED <<att, viaIrqCalls>>

\* io.tick(frequency) on the card that holds the encoder: the encoder's
\* hasCA1Interrupt/hasCB1Interrupt are polled (its tick does nothing)
Enc_ViaTick ==
  LET t == viaTick(via, withEncoder(att, enc)) IN
  /\ via' = t
  /\ viaIrqCalls' = IF irqActive(t) THEN viaIrqCalls + 1 ELSE viaIrqCalls
  /\ encOp' = [op |-> "tick", output |-> FALSE]
  /\ viaRecord([op |-> "tick", reg |-> 0, value |-> 0, ret |-> 0])
  /\ UNCHANGED <<att, enc>>

\* io.reset(coldStart) on the card that holds the encoder: the lists are
\* emptied before the loops that would reset the attachments
Enc_ViaReset ==
  /\ via' = ViaResetState
  /\ encOp' = [op |-> "reset", output |-> FALSE]
  /\ viaRecord([op |-> "reset", reg |-> 0, value |-> 0, ret |-> 0])
  /\ UNCHANGED <<att, viaIrqCalls, enc>>

\* keyboardEncoderAttachment.updateKey(usbHidKeycode, pressed), from the host
Enc_UpdateKey(usbHidKeycode, pressed) ==
  /\ enc' = updateKey(enc, usbHidKeycode, pressed)
  /\ encOp' = [op |-> "updateKey", output |-> keyProducesOutput(enc, usbHidKeycode, pressed)]
  /\ UNCHANGED <<via, att, viaIrqCalls, viaOp, viaScen>>

(***************************************************************************)
(* VideoCard: the TMS9918 VDP.                                             *)
(***************************************************************************)
VARIABLES
  vdp,          \* the VideoCard object
  vdpIrqCalls,  \* how many times the card has invoked its raiseIRQ callback
  vdpOp,        \* the last call made on the card: [op, value, ret, index, prev]
  vdpScan,      \* the sprite scan of the last scanline processed
  vdpScen       \* the observer roundTripNext of the calls made on the card

VRAM_SIZE == 16384
TMS_PIXELS_X == 256
TMS_PIXELS_Y == 192
PATTERN_BYTES == 8
MAX_SPRITES == 32
SPRITE_ATTR_Y == 0
SPRITE_ATTR_X == 1
SPRITE_ATTR_NAME == 2
SPRITE_ATTR_COLOR == 3
SPRITE_ATTR_BYTES == 4
LAST_SPRITE_YPOS == 208
MAX_SCANLINE_SPRITES == 4
STATUS_INT == 128
STATUS_5S == 64
STATUS_COL == 32
TMS_R0_MODE_GRAPHICS_II == 2
TMS_R1_DISP_ACTIVE == 64
TMS_R1_INT_ENABLE == 32
TMS_R1_MODE_MULTICOLOR == 8
TMS_R1_MODE_TEXT == 16
TMS_R1_SPRITE_16 == 2
TMS_R1_SPRITE_MAG2 == 1
TMS_REG_0 == 0
TMS_REG_1 == 1
TMS_REG_SPRITE_ATTR_TABLE == 5
TMS_REG_SPRITE_PATT_TABLE == 6
TOTAL_SCANLINES == 262
FRAMES_PER_SECOND == 60
CYCLES_PER_TICK == 128

\* addr & VRAM_MASK
masked(addr) == addr % VRAM_SIZE

\* this.vram[i].  The Uint8Array is kept as the function of its non-zero
\* bytes: a new array is all zero.
vramAt(d, i) == IF i \in DOMAIN d.vram THEN d.vram[i] ELSE 0

\* this.vram[i] = value.  A store outside the array is ignored, and the byte
\* stored is the low eight bits of the value.
vramPut(m, i, value) ==
  LET b == value % 256
      D == IF b = 0 THEN DOMAIN m \ {i} ELSE DOMAIN m \cup {i}
  IN  IF i \in 0..(VRAM_SIZE - 1)
      THEN [x \in D |-> IF x = i THEN b ELSE m[x]]
      ELSE m

\* VideoCard.updateMode
updateMode(d) ==
  IF BitAnd(d.registers[TMS_REG_0], TMS_R0_MODE_GRAPHICS_II) # 0
  THEN [d EXCEPT !.mode = "GRAPHICS_II"]
  ELSE LET bits == BitAnd(d.registers[TMS_REG_1],
                          BitOr(TMS_R1_MODE_MULTICOLOR, TMS_R1_MODE_TEXT)) \div 8
       IN  [d EXCEPT !.mode = IF bits = 1 THEN "MULTICOLOR"
                               ELSE IF bits = 2 THEN "TEXT"
                               ELSE "GRAPHICS_I"]

\* The fields of a VideoCard after construction
VdpNew ==
  [ registers |-> [r \in 0..7 |-> 0], status |-> 0, currentAddress |-> 0,
    regWriteStage |-> 0, regWriteStage0Value |-> 0, readAheadBuffer |-> 0,
    mode |-> "GRAPHICS_I", vram |-> [x \in {} |-> 0],
    cycleAccumulator |-> 0, currentScanline |-> 0 ]

\* VideoCard.reset: everything but the VRAM
vdpReset(d) == updateMode([VdpNew EXCEPT !.vram = d.vram])

\* VideoCard.writeAddr: the card after a write of the control port
writeAddr(d, data) ==
  IF d.regWriteStage = 0
  THEN [d EXCEPT !.regWriteStage0Value = data, !.regWriteStage = 1]
  ELSE IF BitAnd(data, 128) # 0
       THEN [updateMode([d EXCEPT !.registers[BitAnd(data, 7)] = d.regWriteStage0Value % 256])
               EXCEPT !.regWriteStage = 0]
       ELSE LET a == BitOr(d.regWriteStage0Value, BitAnd(data, 63) * 256) IN
            IF BitAnd(data, 64) = 0
            THEN [d EXCEPT !.readAheadBuffer = vramAt(d, masked(a)),
                           !.currentAddress = a + 1,
                           !.regWriteStage = 0]
            ELSE [d EXCEPT !.currentAddress = a, !.regWriteStage = 0]

\* What a write of the control port does, as the name of the call recorded
writeAddrKind(d, data) ==
  IF d.regWriteStage = 0 THEN "latch"
  ELSE IF BitAnd(data, 128) # 0 THEN "register"
  ELSE IF BitAnd(data, 64) = 0 THEN "readAddress"
  ELSE "writeAddress"

\* A variant of the VRAM index of a data-port access that does not mask the
\* address pointer.
dataIndexUnmasked(d) == d.currentAddress

\* The VRAM index a data-port access uses: currentAddress & VRAM_MASK
dataIndex(d) == masked(d.currentAddress)

\* VideoCard.writeData
writeData(d, data) ==
  [d EXCEPT !.regWriteStage = 0,
            !.readAheadBuffer = data,
            !.vram = vramPut(d.vram, dataIndex(d), data),
            !.currentAddress = @ + 1]

\* A variant of readStatus that leaves the status register as it is.
readStatusKeep(d) == [d EXCEPT !.regWriteStage = 0]

\* VideoCard.readStatus: the card after the read (the value returned is the
\* status before it)
readStatus(d) == [d EXCEPT !.status = 0, !.regWriteStage = 0]

\* A variant of the value of a data read: the byte fetched by this read
\* instead of the byte the read-ahead buffer held.
readDataFetched(d) == vramAt(d, masked(d.currentAddress))

\* The value VideoCard.readData returns: the read-ahead buffer before the read
readDataValue(d) == d.readAheadBuffer

\* A variant of readData that leaves the stage of the control-port latch as
\* it is.
readDataKeepsStage(d) ==
  [d EXCEPT !.readAheadBuffer = vramAt(d, dataIndex(d)),
            !.currentAddress = @ + 1]

\* VideoCard.readData: the card after the read
readData(d) ==
  [d EXCEPT !.regWriteStage = 0,
            !.readAheadBuffer = vramAt(d, dataIndex(d)),
            !.currentAddress = @ + 1]

\* VideoCard.spriteAttrTableAddr
spriteAttrTableAddr(d) == BitAnd(d.registers[TMS_REG_SPRITE_ATTR_TABLE], 127) * 128

\* VideoCard.spritePatternTableAddr
spritePatternTableAddr(d) == BitAnd(d.registers[TMS_REG_SPRITE_PATT_TABLE], 7) * 2048

\* VideoCard.spriteSize
spriteSize(d) == IF BitAnd(d.registers[TMS_REG_1], TMS_R1_SPRITE_16) # 0 THEN 16 ELSE 8

\* VideoCard.spriteMag
spriteMag(d) == BitAnd(d.registers[TMS_REG_1], TMS_R1_SPRITE_MAG2) # 0

\* VideoCard.displayEnabled
displayEnabled(d) == BitAnd(d.registers[TMS_REG_1], TMS_R1_DISP_ACTIVE) # 0

\* The pixel loop of outputSprites for one sprite: the screen columns at which
\* the sprite's pattern row has a 1 bit.  Column xPos + s shows pattern bit s
\* (s \div 2 when magnified); bits 8..15 come from the right half of a
\* 16-pixel sprite.
spritePixels(d, attrBase, pattRow) ==
  LET mag == spriteMag(d)
      sprite16 == spriteSize(d) = 16
      spriteSizePx == spriteSize(d) * (IF mag THEN 2 ELSE 1)
      colorByte == vramAt(d, masked(attrBase + SPRITE_ATTR_COLOR))
      xPos == vramAt(d, masked(attrBase + SPRITE_ATTR_X))
                + (IF BitAnd(colorByte, 128) # 0 THEN -32 ELSE 0)
      pattOffset == spritePatternTableAddr(d)
                      + vramAt(d, masked(attrBase + SPRITE_ATTR_NAME)) * PATTERN_BYTES + pattRow
      left == vramAt(d, masked(pattOffset))
      right == vramAt(d, masked(pattOffset + PATTERN_BYTES * 2))
      pattBitAt(k) == IF k < 8 THEN Bit(left, 7 - k)
                      ELSE IF sprite16 THEN Bit(right, 15 - k) ELSE 0
  IN  { xPos + s : s \in { t \in 0..(spriteSizePx - 1) :
                             /\ xPos + t >= 0
                             /\ xPos + t < TMS_PIXELS_X
                             /\ pattBitAt(IF mag THEN t \div 2 ELSE t) = 1 } }

\* The sprite loop of outputSprites from sprite spriteIdx on: the status it
\* leaves, the index of the fifth visible sprite if one was found (else -1),
\* and the last sprite index the loop looked at.
RECURSIVE scanSprites(_, _, _, _, _, _)
scanSprites(d, y, spriteIdx, status, spritesShown, rowSpriteBits) ==
  IF spriteIdx >= MAX_SPRITES
  THEN [status |-> status, fifth |-> -1, last |-> MAX_SPRITES - 1]
  ELSE
    LET attrBase == spriteAttrTableAddr(d) + spriteIdx * SPRITE_ATTR_BYTES
        raw == vramAt(d, masked(attrBase + SPRITE_ATTR_Y))
        yPos == (IF raw > 224 THEN raw - 256 ELSE raw) + 1
        pattRow == IF spriteMag(d) THEN (y - yPos) \div 2 ELSE y - yPos
    IN
    IF raw = LAST_SPRITE_YPOS
    THEN [ status |-> IF BitAnd(status, STATUS_5S) = 0
                      THEN BitOr(status, spriteIdx) ELSE status,
           fifth |-> -1, last |-> spriteIdx ]
    ELSE IF pattRow < 0 \/ pattRow >= spriteSize(d)
    THEN scanSprites(d, y, spriteIdx + 1, status, spritesShown, rowSpriteBits)
    ELSE IF spritesShown + 1 > MAX_SCANLINE_SPRITES
    THEN [ status |-> IF BitAnd(status, STATUS_5S) = 0
                      THEN BitOr(status, BitOr(STATUS_5S, spriteIdx)) ELSE status,
           fifth |-> spriteIdx, last |-> spriteIdx ]
    ELSE LET px == spritePixels(d, attrBase, pattRow) IN
         scanSprites(d, y, spriteIdx + 1,
                     IF px \cap rowSpriteBits # {} THEN BitOr(status, STATUS_COL) ELSE status,
                     spritesShown + 1, rowSpriteBits \cup px)

\* VideoCard.outputSprites: the status is cleared on scanline 0, then the scan
outputSprites(d, y) == scanSprites(d, y, 0, IF y = 0 THEN 0 ELSE d.status, 0, {})

\* No sprite scan was made on the scanline
NoScan(y) == [y |-> y, fifth |-> -1, last |-> -1]

\* A variant of renderScanline that sets the interrupt flag and raises the
\* IRQ at the end of the active display whatever register 1 holds.
renderScanlineAlwaysInterrupt(d, y) ==
  LET sprites == displayEnabled(d) /\ y < TMS_PIXELS_Y /\ d.mode # "TEXT"
      scan == outputSprites(d, y)
      d1 == IF sprites THEN [d EXCEPT !.status = scan.status] ELSE d
      int == y = TMS_PIXELS_Y - 1
  IN  [ vdp |-> IF int THEN [d1 EXCEPT !.status = BitOr(@, STATUS_INT)] ELSE d1,
        irqs |-> IF int THEN 1 ELSE 0,
        scan |-> IF sprites THEN [y |-> y, fifth |-> scan.fifth, last |-> scan.last]
                 ELSE NoScan(y) ]

\* VideoCard.renderScanline: the card after it, whether raiseIRQ was invoked,
\* and the sprite scan made.  The three graphics modes end with outputSprites;
\* text mode and a disabled display draw no sprites.  The pixels drawn go to
\* the output buffer, which nothing reads back.
renderScanline(d, y) ==
  LET sprites == displayEnabled(d) /\ y < TMS_PIXELS_Y /\ d.mode # "TEXT"
      scan == outputSprites(d, y)
      d1 == IF sprites THEN [d EXCEPT !.status = scan.status] ELSE d
      int == y = TMS_PIXELS_Y - 1 /\ BitAnd(d.registers[TMS_REG_1], TMS_R1_INT_ENABLE) # 0
  IN  [ vdp |-> IF int THEN [d1 EXCEPT !.status = BitOr(@, STATUS_INT)] ELSE d1,
        irqs |-> IF int THEN 1 ELSE 0,
        scan |-> IF sprites THEN [y |-> y, fifth |-> scan.fifth, last |-> scan.last]
                 ELSE NoScan(y) ]

\* VideoCard.processScanline
processScanline(d) ==
  LET r == IF d.currentScanline < TMS_PIXELS_Y
           THEN renderScanline(d, d.currentScanline)
           ELSE [vdp |-> d, irqs |-> 0, scan |-> NoScan(d.currentScanline)]
      n == d.currentScanline + 1
  IN  [r EXCEPT !.vdp.currentScanline = IF n >= TOTAL_SCANLINES THEN 0 ELSE n]

\* The while loop of VideoCard.tick.  cycleAccumulator is kept in units of
\* 1/(FRAMES_PER_SECOND * TOTAL_SCANLINES) cycle, in which cyclesPerScanline
\* is the frequency itself.
RECURSIVE runScanlines(_, _)
runScanlines(r, frequency) ==
  IF r.vdp.cycleAccumulator >= frequency
  THEN LET p == processScanline([r.vdp EXCEPT !.cycleAccumulator = @ - frequency]) IN
       runScanlines([vdp |-> p.vdp, irqs |-> r.irqs + p.irqs, scan |-> p.scan], frequency)
  ELSE r

\* VideoCard.tick
vdpTick(d, scan, frequency) ==
  runScanlines(
    [ vdp |-> [d EXCEPT !.cycleAccumulator =
                 @ + CYCLES_PER_TICK * FRAMES_PER_SECOND * TOTAL_SCANLINES],
      irqs |-> 0, scan |-> scan ],
    frequency)

\* Observer of a round trip through the data port: 1 after the write address
\* was set to a, 2 after v was then written, 3 and 4 after the two control
\* writes that then set the read address to a, 5 after the data read that
\* follows, 6 after a second data read; 0 otherwise.
roundTripNext(m, o) ==
  IF o.op = "writeAddress" THEN [phase |-> 1, a |-> o.index, v |-> 0]
  ELSE IF m.phase = 1 /\ o.op = "writeData" THEN [m EXCEPT !.phase = 2, !.v = o.value]
  ELSE IF m.phase = 2 /\ o.op = "latch" THEN [m EXCEPT !.phase = 3]
  ELSE IF m.phase = 3 /\ o.op = "readAddress" /\ o.index = m.a THEN [m EXCEPT !.phase = 4]
  ELSE IF m.phase \in {4, 5} /\ o.op = "readData" THEN [m EXCEPT !.phase = @ + 1]
  ELSE [phase |-> 0, a |-> 0, v |-> 0]

vdpVars == <<vdp, vdpIrqCalls, vdpOp, vdpScan, vdpScen>>

DataOps == {"readData", "writeData"}

\* The record of a call: for a data-port access, index is the VRAM index it
\* used and prev the index the call before it used if that was a data-port
\* access too (else -1); for a control write that sets an address, index is
\* the address.
callRecord(op, value, ret, index) ==
  [ op |-> op, value |-> value, ret |-> ret, index |-> index,
    prev |-> IF op \in DataOps /\ vdpOp.op \in DataOps THEN vdpOp.index ELSE -1 ]

\* What a call on the card leaves in vdpOp and vdpScen
vdpRecord(o) ==
  /\ vdpOp' = o
  /\ vdpScen' = roundTripNext(vdpScen, o)

\* io.write(address, data) on the card
VDP_Write(address, data) ==
  IF address % 2 = 1
  THEN /\ vdp' = writeAddr(vdp, data)
       /\ vdpRecord(callRecord(
            writeAddrKind(vdp, data), data, 0,
            IF writeAddrKind(vdp, data) \in {"readAddress", "writeAddress"}
            THEN BitOr(vdp.regWriteStage0Value, BitAnd(data, 63) * 256)
            ELSE 0))
       /\ UNCHANGED <<vdpIrqCalls, vdpScan>>
  ELSE /\ vdp' = writeData(vdp, data)
       /\ vdpRecord(callRecord("writeData", data, 0, dataIndex(vdp)))
       /\ UNCHANGED <<vdpIrqCalls, vdpScan>>

\* io.read(address) on the card
VDP_Read(address) ==
  IF address % 2 = 1
  THEN /\ vdp' = readStatus(vdp)
       /\ vdpRecord(callRecord("readStatus", 0, vdp.status, 0))
       /\ UNCHANGED <<vdpIrqCalls, vdpScan>>
  ELSE /\ vdp' = readData(vdp)
       /\ vdpRecord(callRecord("readData", 0, readDataValue(vdp), dataIndex(vdp)))
       /\ UNCHANGED <<vdpIrqCalls, vdpScan>>

\* io.tick(frequency) on the card
VDP_Tick(frequency) ==
  LET t == vdpTick(vdp, vdpScan, frequency) IN
  /\ vdp' = t.vdp
  /\ vdpIrqCalls' = vdpIrqCalls + t.irqs
  /\ vdpScan' = t.scan
  /\ vdpRecord(callRecord("tick", 0, 0, 0))

\* io.reset(coldStart) on the card
VDP_Reset ==
  /\ vdp' = vdpReset(vdp)
  /\ vdpRecord(callRecord("reset", 0, 0, 0))
  /\ UNCHANGED <<vdpIrqCalls, vdpScan>>

\* setRegister(reg, value)
VDP_SetRegister(reg, value) ==
  /\ vdp' = updateMode([vdp EXCEPT !.registers[reg % 8] = value % 256])
  /\ vdpRecord(callRecord("setRegister", value, 0, reg))
  /\ UNCHANGED <<vdpIrqCalls, vdpScan>>

\* setVramByte(addr, value)
VDP_SetVramByte(addr, value) ==
  /\ vdp' = [vdp EXCEPT !.vram = vramPut(@, masked(addr), value)]
  /\ vdpRecord(callRecord("setVramByte", value, 0, addr))
  /\ UNCHANGED <<vdpIrqCalls, vdpScan>>

\* A newly constructed VideoCard
VdpInit ==
  /\ vdp = VdpNew
  /\ vdpIrqCalls = 0
  /\ vdpOp = [op |-> "new", value |-> 0, ret |-> 0, index |-> 0, prev |-> -1]
  /\ vdpScan = NoScan(-1)
  /\ vdpScen = [phase |-> 0, a |-> 0, v |-> 0]

(***************************************************************************)
(* StorageCard: a Compact Flash card in 8-bit IDE mode.                    *)
(***************************************************************************)
VARIABLES
  sto,        \* the fields of the StorageCard
  stoOp,      \* the last call made on the card, and what it returned
  stoDrv,     \* what the program driving the card is transferring
  stoExpect,  \* sector -> the payload the program has written to it
  stoCmds     \* how many commands have been written to the command register

STORAGE_SIZE == 134217728
SECTOR_SIZE == 512
SECTOR_COUNT == STORAGE_SIZE \div SECTOR_SIZE

STATUS_ERR == 1
STATUS_DRQ == 8
STATUS_RDY == 64

ERR_AMNF == 1
ERR_ABRT == 4
ERR_IDNF == 16

BufferIndexes == 0 .. (SECTOR_SIZE - 1)

\* Buffer.alloc(SECTOR_SIZE): 512 bytes of 0x00
ZeroSector == [i \in BufferIndexes |-> 0]

\* The bytes generateIdentity sets to something other than 0x00
IdentityBytes ==
  ( 0 :> 132 @@ 1 :> 138 @@ 3 :> 4 @@ 6 :> 8 @@ 9 :> 64 @@ 11 :> 2 @@
    12 :> 32 @@ 14 :> 4 @@ 20 :> 65 @@ 21 :> 67 @@ 22 :> 87 @@ 23 :> 68 @@
    24 :> 54 @@ 25 :> 53 @@ 26 :> 48 @@ 27 :> 50 @@ 28 :> 69 @@ 29 :> 77 @@
    30 :> 85 @@ 31 :> 67 @@ 32 :> 70 @@ 33 :> 49 @@ 34 :> 48 @@ 35 :> 49 @@
    36 :> 48 @@ 37 :> 49 @@ 38 :> 48 @@ 39 :> 49 @@ 40 :> 1 @@ 42 :> 4 @@
    44 :> 4 @@ 46 :> 49 @@ 47 :> 46 @@ 48 :> 48 @@ 49 :> 32 @@ 50 :> 32 @@
    51 :> 32 @@ 52 :> 32 @@ 53 :> 32 @@ 54 :> 65 @@ 55 :> 67 @@ 56 :> 87 @@
    57 :> 68 @@ 58 :> 54 @@ 59 :> 53 @@ 60 :> 48 @@ 61 :> 50 @@ 62 :> 69 @@
    63 :> 77 @@ 64 :> 85 @@ 65 :> 67 @@ 66 :> 70 @@ 67 :> 32 @@ 68 :> 32 @@
    69 :> 32 @@ 70 :> 32 @@ 71 :> 32 @@ 72 :> 32 @@ 73 :> 32 @@ 74 :> 32 @@
    75 :> 32 @@ 76 :> 32 @@ 77 :> 32 @@ 78 :> 32 @@ 79 :> 32 @@ 80 :> 32 @@
    81 :> 32 @@ 82 :> 32 @@ 83 :> 32 @@ 84 :> 32 @@ 85 :> 32 @@ 86 :> 32 @@
    87 :> 32 @@ 88 :> 32 @@ 89 :> 32 @@ 94 :> 1 @@ 99 :> 2 @@ 103 :> 2 @@
    106 :> 1 @@ 109 :> 4 @@ 110 :> 8 @@ 112 :> 32 @@ 116 :> 4 @@
    118 :> 1 @@ 119 :> 1 @@ 122 :> 4 )

\* StorageCard.identity after generateIdentity
identity ==
  [i \in BufferIndexes |-> IF i \in DOMAIN IdentityBytes THEN IdentityBytes[i] ELSE 0]

\* The 512 bytes of sector n in StorageCard.storage.  The model keeps the
\* sectors that are not all 0x00, the value Buffer.alloc fills the card with.
sectorData(s, n) == IF n \in DOMAIN s.storage THEN s.storage[n] ELSE ZeroSector

\* storage.copy(this.buffer, 0, offset, offset + SECTOR_SIZE), offset = n * 512.
\* The commands issued keep every sector they reach on the card, so the copy
\* is always of 512 bytes.
loadSector(s, n) == IF n < SECTOR_COUNT THEN sectorData(s, n) ELSE s.buffer

\* Sector n of the storage replaced by the 512 bytes data
storeSector(s, n, data) ==
  IF n >= SECTOR_COUNT THEN s.storage
  ELSE IF data = ZeroSector
  THEN [k \in DOMAIN s.storage \ {n} |-> s.storage[k]]
  ELSE [k \in DOMAIN s.storage \cup {n} |-> IF k = n THEN data ELSE s.storage[k]]

\* StorageCard.sectorIndex: the four fields are bytes, so the shifted terms
\* have no bit in common and their OR is their sum.
sectorIndex(s) ==
  BitAnd(s.lba3, 15) * 16777216 + s.lba2 * 65536 + s.lba1 * 256 + s.lba0

\* StorageCard.sectorValid
sectorValid(s) == sectorIndex(s) < SECTOR_COUNT

\* The status and error of a command refused for its sector
invalidSector(s) ==
  [s EXCEPT !.status = BitOr(s.status, STATUS_ERR),
            !.error = BitOr(s.error, BitOr(ERR_ABRT, ERR_IDNF))]

\* executeCommand without the check for a command in progress
executeCommandNoAbort(s) ==
  LET c == [s EXCEPT !.status = AndNot(AndNot(s.status, STATUS_ERR), STATUS_DRQ),
                     !.error = 0,
                     !.commandDataSize = SECTOR_SIZE * s.sectorCount,
                     !.bufferIndex = 0,
                     !.sectorOffset = 0]
  IN  IF c.command \in {32, 33}
      THEN IF ~sectorValid(c) THEN invalidSector(c)
           ELSE [c EXCEPT !.buffer = loadSector(c, sectorIndex(c)),
                          !.status = BitOr(c.status, STATUS_DRQ),
                          !.isTransferring = TRUE]
      ELSE [c EXCEPT !.status = BitOr(c.status, STATUS_ERR),
                     !.error = BitOr(c.error, ERR_ABRT)]

\* executeCommand accepting a sector at any address
executeCommandAnySector(s) ==
  LET c == [s EXCEPT !.status = AndNot(AndNot(s.status, STATUS_ERR), STATUS_DRQ),
                     !.error = 0,
                     !.commandDataSize = SECTOR_SIZE * s.sectorCount,
                     !.bufferIndex = 0,
                     !.sectorOffset = 0]
  IN  IF c.isTransferring \/ c.isIdentifying
      THEN [c EXCEPT !.status = BitOr(c.status, STATUS_ERR),
                     !.error = BitOr(c.error, ERR_ABRT)]
      ELSE [c EXCEPT !.status = BitOr(c.status, STATUS_DRQ),
                     !.isTransferring = TRUE]

\* StorageCard.executeCommand
executeCommand(s) ==
  LET c == [s EXCEPT !.status = AndNot(AndNot(s.status, STATUS_ERR), STATUS_DRQ),
                     !.error = 0,
                     !.commandDataSize = SECTOR_SIZE * s.sectorCount,
                     !.bufferIndex = 0,
                     !.sectorOffset = 0]
  IN  IF c.isTransferring \/ c.isIdentifying
      THEN [c EXCEPT !.status = BitOr(c.status, STATUS_ERR),
                     !.error = BitOr(c.error, ERR_ABRT)]
      ELSE IF c.command = 192
      THEN IF ~sectorValid(c) THEN invalidSector(c)
           ELSE [c EXCEPT !.storage = storeSector(c, sectorIndex(c), ZeroSector)]
      ELSE IF c.command = 236
      THEN [c EXCEPT !.buffer = identity,
                     !.commandDataSize = SECTOR_SIZE,
                     !.status = BitOr(c.status, STATUS_DRQ),
                     !.isIdentifying = TRUE]
      ELSE IF c.command \in {32, 33}
      THEN IF ~sectorValid(c) THEN invalidSector(c)
           ELSE [c EXCEPT !.buffer = loadSector(c, sectorIndex(c)),
                          !.status = BitOr(c.status, STATUS_DRQ),
                          !.isTransferring = TRUE]
      ELSE IF c.command = 239
      THEN c
      ELSE IF c.command \in {48, 49}
      THEN IF ~sectorValid(c) THEN invalidSector(c)
           ELSE [c EXCEPT !.status = BitOr(c.status, STATUS_DRQ),
                          !.isTransferring = TRUE]
      ELSE [c EXCEPT !.status = BitOr(c.status, STATUS_ERR),
                     !.error = BitOr(c.error, ERR_ABRT)]

\* readBuffer ending the transfer at the end of the first sector, whatever
\* the sector count
readBufferOneSector(s) ==
  IF s.isIdentifying
  THEN [ret |-> s.buffer[s.bufferIndex],
        card |-> IF s.bufferIndex < s.commandDataSize - 1
                 THEN [s EXCEPT !.bufferIndex = s.bufferIndex + 1]
                 ELSE [s EXCEPT !.bufferIndex = 0,
                                !.isIdentifying = FALSE,
                                !.status = AndNot(s.status, STATUS_DRQ)]]
  ELSE IF s.isTransferring
  THEN [ret |-> s.buffer[s.bufferIndex],
        card |-> IF s.bufferIndex < SECTOR_SIZE - 1
                 THEN [s EXCEPT !.bufferIndex = s.bufferIndex + 1]
                 ELSE [s EXCEPT !.bufferIndex = 0,
                                !.sectorOffset = s.sectorOffset + 1,
                                !.isTransferring = FALSE,
                                !.status = AndNot(s.status, STATUS_DRQ)]]
  ELSE [ret |-> 0, card |-> s]

\* StorageCard.readBuffer: the card after the read and the byte returned
readBuffer(s) ==
  IF s.isIdentifying
  THEN [ret |-> s.buffer[s.bufferIndex],
        card |-> IF s.bufferIndex < s.commandDataSize - 1
                 THEN [s EXCEPT !.bufferIndex = s.bufferIndex + 1]
                 ELSE [s EXCEPT !.bufferIndex = 0,
                                !.isIdentifying = FALSE,
                                !.status = AndNot(s.status, STATUS_DRQ)]]
  ELSE IF s.isTransferring
  THEN [ret |-> s.buffer[s.bufferIndex],
        card |-> IF s.bufferIndex < SECTOR_SIZE - 1
                 THEN [s EXCEPT !.bufferIndex = s.bufferIndex + 1]
                 ELSE IF s.sectorOffset + 1 < s.sectorCount
                 THEN [s EXCEPT !.bufferIndex = 0,
                                !.sectorOffset = s.sectorOffset + 1,
                                !.buffer = loadSector(s, sectorIndex(s) + s.sectorOffset + 1)]
                 ELSE [s EXCEPT !.bufferIndex = 0,
                                !.sectorOffset = s.sectorOffset + 1,
                                !.isTransferring = FALSE,
                                !.status = AndNot(s.status, STATUS_DRQ)]]
  ELSE [ret |-> 0, card |-> s]

\* writeBuffer storing each full buffer in the sector after the one the
\* command names, whatever the sector offset
writeBufferFirstSector(s, value) ==
  LET b == [s.buffer EXCEPT ![s.bufferIndex] = value]
  IN  IF s.bufferIndex < SECTOR_SIZE - 1
      THEN [s EXCEPT !.buffer = b, !.bufferIndex = s.bufferIndex + 1]
      ELSE LET w == [s EXCEPT !.buffer = b,
                              !.bufferIndex = 0,
                              !.storage = storeSector(s, sectorIndex(s) + 1, b),
                              !.sectorOffset = s.sectorOffset + 1]
           IN  IF w.sectorOffset >= w.sectorCount
               THEN [w EXCEPT !.isTransferring = FALSE,
                              !.status = AndNot(w.status, STATUS_DRQ)]
               ELSE w

\* StorageCard.writeBuffer
writeBuffer(s, value) ==
  LET b == [s.buffer EXCEPT ![s.bufferIndex] = value]
  IN  IF s.bufferIndex < SECTOR_SIZE - 1
      THEN [s EXCEPT !.buffer = b, !.bufferIndex = s.bufferIndex + 1]
      ELSE LET w == [s EXCEPT !.buffer = b,
                              !.bufferIndex = 0,
                              !.storage = storeSector(s, sectorIndex(s) + s.sectorOffset, b),
                              !.sectorOffset = s.sectorOffset + 1]
           IN  IF w.sectorOffset >= w.sectorCount
               THEN [w EXCEPT !.isTransferring = FALSE,
                              !.status = AndNot(w.status, STATUS_DRQ)]
               ELSE w

\* StorageCard.read: the card after the read and the byte returned
stoRead(s, address) ==
  LET reg == BitAnd(address, 7)
  IN  IF reg = 0 THEN readBuffer(s)
      ELSE [card |-> s,
            ret |-> CASE reg = 1 -> s.error
                      [] reg = 2 -> s.sectorCount
                      [] reg = 3 -> s.lba0
                      [] reg = 4 -> s.lba1
                      [] reg = 5 -> s.lba2
                      [] reg = 6 -> s.lba3
                      [] reg = 7 -> s.status]

\* StorageCard.write
stoWrite(s, address, data) ==
  LET reg == BitAnd(address, 7)
  IN  CASE reg = 0 -> writeBuffer(s, data)
        [] reg = 1 -> [s EXCEPT !.feature = data]
        [] reg = 2 -> [s EXCEPT !.sectorCount = data]
        [] reg = 3 -> [s EXCEPT !.lba0 = data]
        [] reg = 4 -> [s EXCEPT !.lba1 = data]
        [] reg = 5 -> [s EXCEPT !.lba2 = data]
        [] reg = 6 -> [s EXCEPT !.lba3 = BitOr(BitAnd(data, 15), 224)]
        [] reg = 7 -> executeCommand([s EXCEPT !.command = data])

\* StorageCard.reset: the storage is left as it is
stoReset(s) ==
  [s EXCEPT !.bufferIndex = 0, !.commandDataSize = SECTOR_SIZE, !.sectorOffset = 0,
            !.error = 0, !.feature = 0, !.sectorCount = 0,
            !.lba0 = 0, !.lba1 = 0, !.lba2 = 0, !.lba3 = 224,
            !.status = BitOr(0, STATUS_RDY), !.command = 0,
            !.isIdentifying = FALSE, !.isTransferring = FALSE,
            !.buffer = ZeroSector]

\* A StorageCard after construction: the field initialisers, then reset(true)
StoNew ==
  stoReset([storage |-> << >>, buffer |-> ZeroSector, bufferIndex |-> 0,
            commandDataSize |-> SECTOR_SIZE, sectorOffset |-> 0,
            error |-> 0, feature |-> 0, sectorCount |-> 0,
            lba0 |-> 0, lba1 |-> 0, lba2 |-> 0, lba3 |-> 224,
            status |-> 0, command |-> 0,
            isIdentifying |-> FALSE, isTransferring |-> FALSE])

stoVars == <<sto, stoOp, stoDrv, stoExpect, stoCmds>>

\* The program is not transferring anything
DrvIdle == [kind |-> "idle", base |-> 0, sectors |-> 0, n |-> 0, sent |-> ZeroSector]

\* What the program concludes from the status after a command it wrote: a
\* transfer has started when DRQ is set, of the sectors counted from the LBA
\* the registers hold
drvAfterCommand(s) ==
  IF BitAnd(s.status, STATUS_DRQ) = 0 THEN DrvIdle
  ELSE [DrvIdle EXCEPT !.base = sectorIndex(s),
                       !.sectors = s.sectorCount,
                       !.kind = IF s.command \in {32, 33} THEN "read"
                                ELSE IF s.command \in {48, 49} THEN "write"
                                ELSE "identify"]

\* What the program concludes after a byte moved through the data register
drvAfterData(d, s, value) ==
  IF BitAnd(s.status, STATUS_DRQ) = 0 THEN DrvIdle
  ELSE [d EXCEPT !.n = d.n + 1, !.sent[d.n % SECTOR_SIZE] = value]

\* The sector the next byte of the transfer belongs to
drvSector(d) == d.base + (d.n \div SECTOR_SIZE)

\* The sectors the program knows the content of, after a write to a register
expectAfterWrite(e, d, s, reg, value) ==
  IF reg = 0
  THEN IF d.kind # "write" THEN << >>
       ELSE IF (d.n + 1) % SECTOR_SIZE # 0 THEN e
       ELSE LET data == [d.sent EXCEPT ![SECTOR_SIZE - 1] = value]
            IN  [k \in DOMAIN e \cup {drvSector(d)} |->
                   IF k = drvSector(d) THEN data ELSE e[k]]
  ELSE IF reg = 7 /\ value = 192 /\ BitAnd(s.status, STATUS_ERR) = 0
  THEN [k \in DOMAIN e \ {sectorIndex(s)} |-> e[k]]
  ELSE e

\* The byte the program expects of a read of the data register, -1 when it
\* has not written the sector being read
expectedByte(e, d) ==
  IF d.kind = "read" /\ drvSector(d) \in DOMAIN e
  THEN e[drvSector(d)][d.n % SECTOR_SIZE]
  ELSE -1

\* The call recorded: what the card was doing when it was made, and the
\* transfer the program was making, with the bytes it had moved
stoRecord(op, reg, value, ret, expect) ==
  [op |-> op, reg |-> reg, value |-> value, ret |-> ret, expect |-> expect,
   drq |-> BitAnd(sto.status, STATUS_DRQ) # 0,
   busy |-> sto.isTransferring \/ sto.isIdentifying,
   kind |-> stoDrv.kind, count |-> stoDrv.n, sectors |-> stoDrv.sectors]

\* StorageCard.write(address, data)
Sto_Write(address, data) ==
  LET reg == BitAnd(address, 7)
      s == stoWrite(sto, address, data)
  IN  /\ sto' = s
      /\ stoOp' = stoRecord("write", reg, data, 0, -1)
      /\ stoDrv' = IF reg = 7 THEN drvAfterCommand(s)
                   ELSE IF reg = 0 /\ stoDrv.kind = "write" THEN drvAfterData(stoDrv, s, data)
                   ELSE stoDrv
      /\ stoExpect' = expectAfterWrite(stoExpect, stoDrv, s, reg, data)
      /\ stoCmds' = IF reg = 7 THEN stoCmds + 1 ELSE stoCmds

\* StorageCard.read(address)
Sto_Read(address) ==
  LET reg == BitAnd(address, 7)
      r == stoRead(sto, address)
  IN  /\ sto' = r.card
      /\ stoOp' = stoRecord("read", reg, 0, r.ret,
                            IF reg = 0 THEN expectedByte(stoExpect, stoDrv) ELSE -1)
      /\ stoDrv' = IF reg = 0 /\ stoDrv.kind \in {"read", "identify"}
                   THEN drvAfterData(stoDrv, r.card, r.ret)
                   ELSE stoDrv
      /\ UNCHANGED <<stoExpect, stoCmds>>

\* StorageCard.tick(frequency): no timing behaviour
Sto_Tick == UNCHANGED stoVars

\* StorageCard.reset(coldStart)
Sto_Reset ==
  /\ sto' = stoReset(sto)
  /\ stoOp' = stoRecord("reset", 0, 0, 0, -1)
  /\ stoDrv' = DrvIdle
  /\ UNCHANGED <<stoExpect, stoCmds>>

\* A StorageCard after construction
StoInit ==
  /\ sto = StoNew
  /\ stoOp = [op |-> "new", reg |-> 0, value |-> 0, ret |-> 0, expect |-> -1,
              drq |-> FALSE, busy |-> FALSE,
              kind |-> "idle", count |-> 0, sectors |-> 0]
  /\ stoDrv = DrvIdle
  /\ stoExpect = << >>
  /\ stoCmds = 0

(***************************************************************************)
(* SerialCard: a 6551 ACIA.                                                *)
(***************************************************************************)
VARIABLES
  ser,      \* the fields of the SerialCard
  serOp,    \* the last call made on the card, what it returned, and the call before it
  serHist   \* the ticks since the transmit queue or the baud rate last changed

\* SerialCard.getBaudRate: `baudRates[code] || 115200`, every entry non-zero
getBaudRate(code) ==
  << 115200, 50, 75, 110, 135, 150, 300, 600, 1200, 1800, 2400, 3600, 4800,
     7200, 9600, 19200 >>[code + 1]

\* Math.floor((frequency / this.baudRate) * 10).  The frequencies the card is
\* ticked with are multiples of a tenth of the baud rates used or fall well
\* between two of them, so the floating-point quotient rounds as the exact one.
cyclesPerByte(f, baud) == (f * 10) \div baud

\* readData leaving the IRQ flag as it is
serReadDataKeepsIrq(s) ==
  IF Len(s.receiveBuffer) > 0
  THEN [card |-> [s EXCEPT !.receiveBuffer = Tail(s.receiveBuffer),
                           !.dataRegister = Head(s.receiveBuffer),
                           !.statusRegister = AndNot(s.statusRegister, 8)],
        ret |-> Head(s.receiveBuffer)]
  ELSE [card |-> s, ret |-> s.dataRegister]

\* SerialCard.readData: the card after the read, and the byte returned
serReadData(s) ==
  IF Len(s.receiveBuffer) > 0
  THEN LET rest == Tail(s.receiveBuffer)
           s1 == [s EXCEPT !.receiveBuffer = rest,
                           !.dataRegister = Head(s.receiveBuffer),
                           !.statusRegister = AndNot(s.statusRegister, 8)]
           s2 == IF Len(rest) = 0
                 THEN [s1 EXCEPT !.overrun = FALSE,
                                 !.statusRegister = AndNot(s1.statusRegister, 4)]
                 ELSE s1
           s3 == IF BitAnd(s2.commandRegister, 4) # 0 /\ Len(rest) = 0
                 THEN [s2 EXCEPT !.irqFlag = FALSE,
                                 !.statusRegister = AndNot(s2.statusRegister, 128)]
                 ELSE s2
       IN  [card |-> s3, ret |-> Head(s.receiveBuffer)]
  ELSE [card |-> s, ret |-> s.dataRegister]

\* SerialCard.writeData
serWriteData(s, data) ==
  [s EXCEPT !.transmitBuffer = Append(s.transmitBuffer, BitAnd(data, 255)),
            !.statusRegister = AndNot(s.statusRegister, 16)]

\* The status byte readStatus composes from the flags and the two buffers
statusByte(s) ==
  LET b0 == IF s.parityError THEN 1 ELSE 0
      b1 == IF s.framingError THEN BitOr(b0, 2) ELSE b0
      b2 == IF s.overrun THEN BitOr(b1, 4) ELSE b1
      b3 == IF Len(s.receiveBuffer) > 0 THEN BitOr(b2, 8) ELSE b2
      b4 == IF Len(s.transmitBuffer) = 0 THEN BitOr(b3, 16) ELSE b3
      b5 == AndNot(b4, 32)
      b6 == BitOr(b5, 64)
  IN  IF s.irqFlag THEN BitOr(b6, 128) ELSE b6

\* readStatus reporting the flags but not the buffers
serReadStatusNoBuffers(s) ==
  LET st == BitOr(IF s.overrun THEN 4 ELSE 0, IF s.irqFlag THEN 208 ELSE 80)
  IN  [card |-> [s EXCEPT !.statusRegister = st], ret |-> st]

\* SerialCard.readStatus: the card after the read, and the byte returned
serReadStatus(s) ==
  [card |-> [s EXCEPT !.statusRegister = statusByte(s)], ret |-> statusByte(s)]

\* SerialCard.writeCommand: the card after the write, and whether raiseIRQ
\* was called
serWriteCommand(s, data) ==
  LET receiveIRQEnabled == BitAnd(data, 4) # 0
      s1 == [s EXCEPT !.commandRegister = BitAnd(data, 255),
                      !.echoMode = BitAnd(data, 32) # 0]
  IN  IF receiveIRQEnabled /\ Len(s1.receiveBuffer) > 0
      THEN [card |-> [s1 EXCEPT !.irqFlag = TRUE,
                                !.statusRegister = BitOr(s1.statusRegister, 128)],
            irq |-> TRUE]
      ELSE IF ~receiveIRQEnabled
      THEN [card |-> [s1 EXCEPT !.irqFlag = FALSE,
                                !.statusRegister = AndNot(s1.statusRegister, 128)],
            irq |-> FALSE]
      ELSE [card |-> s1, irq |-> FALSE]

\* SerialCard.writeControl
serWriteControl(s, data) ==
  [s EXCEPT !.controlRegister = BitAnd(data, 255),
            !.baudRate = getBaudRate(BitAnd(data, 15))]

\* programmedReset emptying the two buffers as well
programmedResetFlush(s) ==
  [s EXCEPT !.statusRegister = 16, !.parityError = FALSE, !.framingError = FALSE,
            !.overrun = FALSE, !.irqFlag = FALSE,
            !.transmitBuffer = << >>, !.receiveBuffer = << >>]

\* SerialCard.programmedReset
programmedReset(s) ==
  [s EXCEPT !.statusRegister = 16, !.parityError = FALSE, !.framingError = FALSE,
            !.overrun = FALSE, !.irqFlag = FALSE]

\* tick never transmitting
serTickIdle(s, f) ==
  [card |-> [s EXCEPT !.cycleCounter = s.cycleCounter + 1], irq |-> FALSE]

\* SerialCard.tick(frequency): the card after the tick, and whether
\* raiseIRQ was called
serTick(s, f) ==
  LET s1 == [s EXCEPT !.cycleCounter = s.cycleCounter + 1]
  IN  IF s1.cycleCounter >= cyclesPerByte(f, s1.baudRate) /\ Len(s1.transmitBuffer) > 0
      THEN LET s2 == [s1 EXCEPT !.cycleCounter = 0,
                                !.transmitBuffer = Tail(s1.transmitBuffer)]
           IN  IF Len(s2.transmitBuffer) = 0
               THEN LET s3 == [s2 EXCEPT !.statusRegister = BitOr(s2.statusRegister, 16)]
                    IN  IF BitAnd(s3.commandRegister, 24) = 8
                        THEN [card |-> [s3 EXCEPT !.irqFlag = TRUE,
                                                  !.statusRegister = BitOr(s3.statusRegister, 128)],
                              irq |-> TRUE]
                        ELSE [card |-> s3, irq |-> FALSE]
               ELSE [card |-> s2, irq |-> FALSE]
      ELSE [card |-> s1, irq |-> FALSE]

\* A SerialCard after construction, and after reset(coldStart)
SerNew ==
  [dataRegister |-> 0, statusRegister |-> 16, commandRegister |-> 0,
   controlRegister |-> 0, transmitBuffer |-> << >>, receiveBuffer |-> << >>,
   parityError |-> FALSE, framingError |-> FALSE, overrun |-> FALSE,
   irqFlag |-> FALSE, echoMode |-> FALSE, cycleCounter |-> 0, baudRate |-> 115200]

\* SerialCard.onData(data): the card after the byte, and whether raiseIRQ
\* was called
onData(s, data) ==
  LET s1 == IF Len(s.receiveBuffer) > 0 /\ BitAnd(s.statusRegister, 8) # 0
            THEN [s EXCEPT !.overrun = TRUE,
                           !.statusRegister = BitOr(s.statusRegister, 4)]
            ELSE s
      s2 == [s1 EXCEPT !.receiveBuffer = Append(s1.receiveBuffer, BitAnd(data, 255)),
                       !.statusRegister = BitOr(s1.statusRegister, 8)]
      irq == BitAnd(s2.commandRegister, 4) # 0
      s3 == IF irq
            THEN [s2 EXCEPT !.irqFlag = TRUE,
                            !.statusRegister = BitOr(s2.statusRegister, 128)]
            ELSE s2
      s4 == IF s3.echoMode
            THEN [s3 EXCEPT !.transmitBuffer = Append(s3.transmitBuffer, BitAnd(data, 255)),
                            !.statusRegister = AndNot(s3.statusRegister, 16)]
            ELSE s3
  IN  [card |-> s4, irq |-> irq]

\* SerialCard.read: the card after the read, and the byte returned
serRead(s, address) ==
  LET register == BitAnd(address, 3)
  IN  IF register = 0 THEN serReadData(s)
      ELSE IF register = 1 THEN serReadStatus(s)
      ELSE [card |-> s, ret |-> 0]

\* SerialCard.write: the card after the write, and whether raiseIRQ was
\* called
serWrite(s, address, data) ==
  LET register == BitAnd(address, 3)
  IN  CASE register = 0 -> [card |-> serWriteData(s, data), irq |-> FALSE]
        [] register = 1 -> [card |-> programmedReset(s), irq |-> FALSE]
        [] register = 2 -> serWriteCommand(s, data)
        [] register = 3 -> [card |-> serWriteControl(s, data), irq |-> FALSE]

serVars == <<ser, serOp, serHist>>

\* The largest number of ticks counted since the transmit queue or the baud
\* rate last changed
MaxSerTicks == 4

\* The call recorded: what it returned, whether it called raiseIRQ, whether
\* it took a byte from the receive buffer, the IRQ flag as it found it, and
\* what the call before it was
serRecord(op, reg, ret, irq) ==
  [op |-> op, reg |-> reg, ret |-> ret, irq |-> irq,
   deq |-> op = "read" /\ reg = 0 /\ Len(ser.receiveBuffer) > 0,
   irqWas |-> ser.irqFlag,
   prev |-> IF serOp.deq THEN "dequeue"
            ELSE IF serOp.op = "write" /\ serOp.reg = 1 THEN "programmedReset"
            ELSE "other"]

\* Ticks counted from now, with the bytes now waiting to be transmitted.
\* written: the data port has been written and the card has not been ticked
\* or reset since.
histFrom(s, written) ==
  [ticks |-> 0, pending |-> Len(s.transmitBuffer), written |-> written]

\* SerialCard.read(address)
Ser_Read(address) ==
  LET r == serRead(ser, address)
  IN  /\ ser' = r.card
      /\ serOp' = serRecord("read", BitAnd(address, 3), r.ret, FALSE)
      /\ UNCHANGED serHist

\* SerialCard.write(address, data)
Ser_Write(address, data) ==
  LET register == BitAnd(address, 3)
      w == serWrite(ser, address, data)
  IN  /\ ser' = w.card
      /\ serOp' = serRecord("write", register, 0, w.irq)
      /\ serHist' = IF register = 0 THEN histFrom(w.card, TRUE)
                    ELSE IF register = 3 THEN histFrom(w.card, serHist.written)
                    ELSE serHist

\* SerialCard.tick(frequency)
Ser_Tick(f) ==
  LET t == serTick(ser, f)
  IN  /\ ser' = t.card
      /\ serOp' = serRecord("tick", 0, 0, t.irq)
      /\ serHist' = [serHist EXCEPT !.written = FALSE,
                       !.ticks = IF serHist.ticks < MaxSerTicks
                                 THEN serHist.ticks + 1 ELSE MaxSerTicks]

\* SerialCard.reset(coldStart)
Ser_Reset ==
  /\ ser' = SerNew
  /\ serOp' = serRecord("reset", 0, 0, FALSE)
  /\ serHist' = histFrom(SerNew, FALSE)

\* SerialCard.onData(data): a byte from the host
Ser_OnData(data) ==
  LET r == onData(ser, data)
  IN  /\ ser' = r.card
      /\ serOp' = serRecord("onData", 0, 0, r.irq)
      /\ serHist' = IF ser.echoMode THEN histFrom(r.card, serHist.written) ELSE serHist

\* A SerialCard after construction
SerInit ==
  /\ ser = SerNew
  /\ serOp = [op |-> "new", reg |-> 0, ret |-> 0, irq |-> FALSE, deq |-> FALSE,
              irqWas |-> FALSE, prev |-> "other"]
  /\ serHist = [ticks |-> 0, pending |-> 0, written |-> FALSE]

(***************************************************************************)
(* RAMCard: 256 banks of 1KB behind a 1KB window.                          *)
(***************************************************************************)
VARIABLES
  ram,        \* the RAMCard: data and currentBank
  ramOp,      \* the last call made on the card, and what it returned
  ramShadow   \* for each bank and offset, the byte last written there

TOTAL_SIZE == 262144
BANK_SIZE == 1024
NUM_BANKS == TOTAL_SIZE \div BANK_SIZE
BANK_CONTROL_REGISTER == 1023

ramVars == <<ram, ramOp, ramShadow>>

\* The banks and the offsets of the window that are accessed
RamBanks == {0, 1, NUM_BANKS - 1}
RamOffsets == {0, BANK_CONTROL_REGISTER - 1}

\* The indexes of `data` these banks and offsets are stored at
RamIndexes == { b * BANK_SIZE + o : b \in RamBanks, o \in RamOffsets }

\* RAMCard.read
ramRead(c, address) ==
  IF address = BANK_CONTROL_REGISTER
  THEN c.currentBank
  ELSE c.data[c.currentBank * BANK_SIZE + address]

\* write storing every bank at the start of `data`
ramWriteUnbanked(c, address, data) ==
  IF address = BANK_CONTROL_REGISTER
  THEN [c EXCEPT !.currentBank = BitAnd(data, 255)]
  ELSE [c EXCEPT !.data = [i \in RamIndexes |->
                             IF i % BANK_SIZE = address THEN BitAnd(data, 255) ELSE c.data[i]]]

\* RAMCard.write
ramWrite(c, address, data) ==
  IF address = BANK_CONTROL_REGISTER
  THEN [c EXCEPT !.currentBank = BitAnd(data, 255)]
  ELSE [c EXCEPT !.data[c.currentBank * BANK_SIZE + address] = BitAnd(data, 255)]

\* A RAMCard after construction
RamNew == [data |-> [i \in RamIndexes |-> 0], currentBank |-> 0]

\* RAMCard.reset
ramReset(c, coldStart) == IF coldStart THEN RamNew ELSE c

\* No byte written to any bank
NoShadow == [b \in RamBanks |-> [o \in RamOffsets |-> 0]]

Ram_Read(address) ==
  /\ ramOp' = [op |-> "read", address |-> address, value |-> 0,
               bank |-> ram.currentBank, ret |-> ramRead(ram, address)]
  /\ UNCHANGED <<ram, ramShadow>>

Ram_Write(address, data) ==
  /\ ram' = ramWrite(ram, address, data)
  /\ ramOp' = [op |-> "write", address |-> address, value |-> data,
               bank |-> ram.currentBank, ret |-> 0]
  /\ ramShadow' = IF address = BANK_CONTROL_REGISTER
                  THEN ramShadow
                  ELSE [ramShadow EXCEPT ![ram.currentBank][address] = data]

Ram_Tick ==
  /\ ramOp' = [op |-> "tick", address |-> 0, value |-> 0,
               bank |-> ram.currentBank, ret |-> 0]
  /\ UNCHANGED <<ram, ramShadow>>

Ram_Reset(coldStart) ==
  /\ ram' = ramReset(ram, coldStart)
  /\ ramOp' = [op |-> IF coldStart THEN "coldReset" ELSE "warmReset",
               address |-> 0, value |-> 0, bank |-> ram.currentBank, ret |-> 0]
  /\ ramShadow' = IF coldStart THEN NoShadow ELSE ramShadow

RamInit ==
  /\ ram = RamNew
  /\ ramOp = [op |-> "new", address |-> 0, value |-> 0, bank |-> 0, ret |-> 0]
  /\ ramShadow = NoShadow

(***************************************************************************)
(* SoundCard (SID): the register file and the two read-back values of      *)
(* voice 3.  The envelopes, waveforms and filter are not modelled: a tick   *)
(* leaves voice 3 with any waveform output and envelope level.  The        *)
(* oscillators (phase accumulator, frequency, control register and noise   *)
(* LFSR of each voice) are the variable voices, which the actions Sid_     *)
(* drive; the actions Snd_ are the card seen through its registers alone.  *)
(***************************************************************************)
VARIABLES
  snd,         \* the SoundCard: registers, voices[2].waveformOutput, voices[2].envelopeLevel
  sndOp,       \* the last call on the SoundCard
  sndWritten,  \* the byte last written at each of the 32 register addresses
  voices       \* SoundCard.voices: the oscillator of each SIDVoice

sndVars == <<snd, sndOp, sndWritten, voices>>

NUM_REGISTERS == 29
REG_POTX == 25
REG_POTY == 26
REG_OSC3 == 27
REG_ENV3 == 28

\* new SoundCard()
SndNew ==
  [registers |-> [r \in 0..(NUM_REGISTERS - 1) |-> 0],
   waveformOutput |-> 0,
   envelopeLevel |-> 0]

\* A read that returns zero at the paddle registers too
sndReadWriteOnly(s, address) ==
  LET reg == BitAnd(address, 31)
  IN  CASE reg = REG_OSC3 -> BitAnd(s.waveformOutput \div 16, 255)
        [] reg = REG_ENV3 -> s.envelopeLevel
        [] OTHER -> 0

\* SoundCard.read: the byte returned
sndRead(s, address) ==
  LET reg == BitAnd(address, 31)
  IN  CASE reg = REG_POTX -> s.registers[REG_POTX]
        [] reg = REG_POTY -> s.registers[REG_POTY]
        [] reg = REG_OSC3 -> BitAnd(s.waveformOutput \div 16, 255)
        [] reg = REG_ENV3 -> s.envelopeLevel
        [] OTHER -> 0

\* SoundCard.write: the register file after the write
sndWrite(s, address, data) ==
  LET reg == BitAnd(address, 31)
  IN  IF reg >= NUM_REGISTERS THEN s
      ELSE [s EXCEPT !.registers[reg] = data]

\* The 12-bit waveform outputs and the envelope levels a tick may leave
SndWaveforms == {0, 4095}
SndEnvelopes == {0, 255}

\* SoundCard.read(address)
Snd_Read(address) ==
  /\ sndOp' = [op |-> "read", reg |-> BitAnd(address, 31), ret |-> sndRead(snd, address)]
  /\ UNCHANGED <<snd, sndWritten, voices>>

\* SoundCard.write(address, data)
Snd_Write(address, data) ==
  /\ snd' = sndWrite(snd, address, data)
  /\ sndOp' = [op |-> "write", reg |-> BitAnd(address, 31), ret |-> 0]
  /\ sndWritten' = [sndWritten EXCEPT ![BitAnd(address, 31)] = data]
  /\ UNCHANGED voices

\* SoundCard.tick(frequency): 128 SID cycles
Snd_Tick ==
  /\ \E w \in SndWaveforms, l \in SndEnvelopes :
       snd' = [snd EXCEPT !.waveformOutput = w, !.envelopeLevel = l]
  /\ sndOp' = [op |-> "tick", reg |-> 0, ret |-> 0]
  /\ UNCHANGED <<sndWritten, voices>>

\* The oscillators.  Of a SIDVoice the fields the oscillator reads and
\* writes are kept; pulse width, envelope and waveform output are not.
SID_CYCLES_PER_TICK == 128
REG_FREQ_LO == 0
REG_FREQ_HI == 1
REG_CONTROL == 4
CTRL_SYNC == 2
CTRL_TEST == 8
NOISE_SHIFT_INIT == 8388600

VoiceIndexes == 0..2

\* new SIDVoice(), and SIDVoice.reset()
VoiceNew ==
  [accumulator |-> 0, frequency |-> 0, control |-> 0, noiseShift |-> NOISE_SHIFT_INIT]

\* SoundCard.updateVoiceRegister: the voice after the write of its register reg
updateVoiceRegister(voice, reg, data) ==
  CASE reg = REG_FREQ_LO ->
         [voice EXCEPT !.frequency = (voice.frequency \div 256) * 256 + data]
    [] reg = REG_FREQ_HI ->
         [voice EXCEPT !.frequency = (voice.frequency % 256) + data * 256]
    [] reg = REG_CONTROL ->
         IF BitAnd(data, CTRL_TEST) # 0
         THEN [voice EXCEPT !.control = data, !.accumulator = 0,
                            !.noiseShift = NOISE_SHIFT_INIT]
         ELSE [voice EXCEPT !.control = data]
    [] OTHER -> voice

\* The noise LFSR without its feedback: a plain shift to the left
noiseClockNoFeedback(noiseShift) == (noiseShift * 2) % (2 ^ 23)

\* The clocking of the 23-bit noise LFSR: bit 17 XOR bit 22 is shifted in
noiseClock(noiseShift) ==
  LET bit0 == (Bit(noiseShift, 17) + Bit(noiseShift, 22)) % 2
  IN  (noiseShift * 2 + bit0) % (2 ^ 23)

\* SoundCard.clockOscillator(voiceIndex): the voices after one cycle of the
\* oscillator.  (syncSource.accumulator - syncSource.frequency) >> 23 is the
\* sign, all ones, when the difference is negative.
clockOscillator(vs, voiceIndex) ==
  LET voice       == vs[voiceIndex]
      advanced    == (voice.accumulator + voice.frequency) % (2 ^ 24)
      prevAccBit19 == Bit(voice.accumulator, 19)
      currAccBit19 == Bit(advanced, 19)
      syncSource  == vs[(voiceIndex + 2) % 3]
      difference  == syncSource.accumulator - syncSource.frequency
      prevMSB     == IF difference < 0 THEN 1 ELSE Bit(difference, 23)
      currMSB     == Bit(syncSource.accumulator, 23)
  IN  IF BitAnd(voice.control, CTRL_TEST) # 0 THEN vs
      ELSE [vs EXCEPT ![voiceIndex] =
              [voice EXCEPT
                 !.accumulator = IF BitAnd(voice.control, CTRL_SYNC) # 0
                                    /\ prevMSB = 0 /\ currMSB = 1
                                 THEN 0 ELSE advanced,
                 !.noiseShift  = IF prevAccBit19 = 0 /\ currAccBit19 = 1
                                 THEN noiseClock(voice.noiseShift)
                                 ELSE voice.noiseShift]]

\* n >= 1 times SoundCard.clockOneCycle, which clocks the three oscillators
\* in turn; the n cycles are run as two halves, one after the other
RECURSIVE clockCycles(_, _)
clockCycles(vs, n) ==
  IF n = 1 THEN clockOscillator(clockOscillator(clockOscillator(vs, 0), 1), 2)
  ELSE CHOOSE after \in { clockCycles(half, n - n \div 2) :
                            half \in { clockCycles(vs, n \div 2) } } : TRUE

\* SoundCard.write(address, data), the voices with it
Sid_Write(address, data) ==
  LET reg == BitAnd(address, 31) IN
  /\ snd' = sndWrite(snd, address, data)
  /\ voices' = IF reg <= 20
               THEN [voices EXCEPT ![reg \div 7] = updateVoiceRegister(@, reg % 7, data)]
               ELSE voices
  /\ sndOp' = [op |-> "write", reg |-> reg, ret |-> 0]
  /\ sndWritten' = [sndWritten EXCEPT ![reg] = data]

\* SoundCard.tick(frequency), the voices with it
Sid_Tick ==
  /\ \E w \in SndWaveforms, l \in SndEnvelopes :
       snd' = [snd EXCEPT !.waveformOutput = w, !.envelopeLevel = l]
  /\ voices' = clockCycles(voices, SID_CYCLES_PER_TICK)
  /\ sndOp' = [op |-> "tick", reg |-> 0, ret |-> 0]
  /\ UNCHANGED sndWritten

\* SoundCard.reset(coldStart)
Sid_Reset ==
  /\ snd' = SndNew
  /\ voices' = [i \in VoiceIndexes |-> VoiceNew]
  /\ sndOp' = [op |-> "reset", reg |-> 0, ret |-> 0]
  /\ sndWritten' = [r \in 0..31 |-> 0]

SndInit ==
  /\ snd = SndNew
  /\ sndOp = [op |-> "new", reg |-> 0, ret |-> 0]
  /\ sndWritten = [r \in 0..31 |-> 0]
  /\ voices = [i \in VoiceIndexes |-> VoiceNew]

(***************************************************************************)
(* RTCCard (DS1511Y): the watchdog and the two control registers.  The     *)
(* time of day, the alarm, the transfer of the user copy and the extended  *)
(* RAM are not modelled: the alarm registers stay as constructed, and with *)
(* them checkAlarm matches no time.                                        *)
(***************************************************************************)
VARIABLES
  rtc,          \* the RTCCard
  rtcOp,        \* the last call on the RTCCard, with the interrupts it raised
  rtcIrqCalls,  \* how many times the card has invoked raiseIRQ
  rtcNmiCalls   \* how many times the card has invoked raiseNMI

rtcVars == <<rtc, rtcOp, rtcIrqCalls, rtcNmiCalls>>

\* Bits of control A and control B
RTC_IRQF == 1
RTC_WDF == 2
RTC_KSF == 4
RTC_WDS == 1
RTC_WDE == 2
RTC_KIE == 4

\* The registers modelled: watchdog 1 and 2, control A and control B
RTC_WATCHDOG1 == 12
RTC_WATCHDOG2 == 13
RTC_CONTROL_A == 14
RTC_CONTROL_B == 15

\* new RTCCard()
RtcNew ==
  [watchdog1 |-> 0, watchdog2 |-> 0,
   watchdogCounterCentis |-> 0, watchdogCycleCounter |-> 0,
   controlA |-> 0, controlB |-> 0,
   cpuFrequency |-> 2000000]

\* A card, with no interrupt raised by the call in progress
rtcQuiet(c) == [card |-> c, irqs |-> 0, nmis |-> 0]

\* RTCCard.raiseInterruptIfEnabled
raiseInterruptIfEnabled(r, flagMask, enableMask) ==
  IF BitAnd(r.card.controlA, flagMask) = 0 THEN r
  ELSE IF BitAnd(r.card.controlB, enableMask) = 0 THEN r
  ELSE [r EXCEPT !.card.controlA = BitOr(@, RTC_IRQF), !.irqs = @ + 1]

\* RTCCard.setKickstartFlag
setKickstartFlag(r) ==
  raiseInterruptIfEnabled([r EXCEPT !.card.controlA = BitOr(@, RTC_KSF)], RTC_KSF, RTC_KIE)

\* RTCCard.decodeWatchdogCentis
decodeWatchdogCentis(c) ==
  LET hundredths == BitAnd(c.watchdog1, 15)
      tenths == BitAnd(c.watchdog1 \div 16, 15)
      seconds == BitAnd(c.watchdog2, 15)
      tensSeconds == BitAnd(c.watchdog2 \div 16, 15)
  IN  ((tensSeconds * 10 + seconds) * 100) + (tenths * 10 + hundredths)

\* RTCCard.reloadWatchdog
reloadWatchdog(c) ==
  [c EXCEPT !.watchdogCounterCentis = decodeWatchdogCentis(c),
            !.watchdogCycleCounter = 0]

\* Math.max(1, Math.floor(this.cpuFrequency / 100))
cyclesPerCentisecond(c) ==
  IF c.cpuFrequency \div 100 > 1 THEN c.cpuFrequency \div 100 ELSE 1

\* A watchdog that leaves WDE set when it is steered to the NMI
stepWatchdogKeepsWDE(r) ==
  LET c == r.card IN
  IF BitAnd(c.controlB, RTC_WDE) = 0 THEN r
  ELSE IF c.watchdogCounterCentis <= 0 THEN r
  ELSE IF c.watchdogCycleCounter + 1 < cyclesPerCentisecond(c)
  THEN [r EXCEPT !.card.watchdogCycleCounter = @ + 1]
  ELSE IF c.watchdogCounterCentis - 1 > 0
  THEN [r EXCEPT !.card.watchdogCycleCounter = 0,
                 !.card.watchdogCounterCentis = @ - 1]
  ELSE LET e == [r EXCEPT !.card.watchdogCycleCounter = 0,
                          !.card.watchdogCounterCentis = @ - 1,
                          !.card.controlA = BitOr(@, RTC_WDF)]
       IN  IF BitAnd(c.controlB, RTC_WDS) = 0
           THEN raiseInterruptIfEnabled(e, RTC_WDF, RTC_WDE)
           ELSE [e EXCEPT !.nmis = @ + 1]

\* RTCCard.stepWatchdog
stepWatchdog(r) ==
  LET c == r.card IN
  IF BitAnd(c.controlB, RTC_WDE) = 0 THEN r
  ELSE IF c.watchdogCounterCentis <= 0 THEN r
  ELSE IF c.watchdogCycleCounter + 1 < cyclesPerCentisecond(c)
  THEN [r EXCEPT !.card.watchdogCycleCounter = @ + 1]
  ELSE IF c.watchdogCounterCentis - 1 > 0
  THEN [r EXCEPT !.card.watchdogCycleCounter = 0,
                 !.card.watchdogCounterCentis = @ - 1]
  ELSE LET e == [r EXCEPT !.card.watchdogCycleCounter = 0,
                          !.card.watchdogCounterCentis = @ - 1,
                          !.card.controlA = BitOr(@, RTC_WDF)]
       IN  IF BitAnd(c.controlB, RTC_WDS) = 0
           THEN raiseInterruptIfEnabled(e, RTC_WDF, RTC_WDE)
           ELSE [e EXCEPT !.card.controlB = AndNot(@, RTC_WDE), !.nmis = @ + 1]

\* RTCCard.read: the card after the read and the byte returned.  A read of
\* control A clears IRQF, WDF, KSF and TDF.  A read of a register that is not
\* modelled changes nothing of the watchdog and the control registers; the
\* byte it returns is not modelled.
rtcRead(c, address) ==
  LET reg == BitAnd(address, 31)
  IN  CASE reg = RTC_WATCHDOG1 -> [card |-> c, ret |-> c.watchdog1]
        [] reg = RTC_WATCHDOG2 -> [card |-> c, ret |-> c.watchdog2]
        [] reg = RTC_CONTROL_A ->
             [card |-> [c EXCEPT !.controlA = BitAnd(@, 240)], ret |-> c.controlA]
        [] reg = RTC_CONTROL_B -> [card |-> c, ret |-> c.controlB]
        [] OTHER -> [card |-> c, ret |-> 0]

\* RTCCard.write.  A write of a register that is not modelled changes nothing
\* of the watchdog and the control registers.
rtcWrite(c, address, value) ==
  LET reg == BitAnd(address, 31)
      data == BitAnd(value, 255)
  IN  CASE reg = RTC_WATCHDOG1 -> rtcQuiet(reloadWatchdog([c EXCEPT !.watchdog1 = data]))
        [] reg = RTC_WATCHDOG2 -> rtcQuiet(reloadWatchdog([c EXCEPT !.watchdog2 = data]))
        [] reg = RTC_CONTROL_A ->
             rtcQuiet([c EXCEPT !.controlA =
                         BitOr(BitAnd(data, 240),
                               AndNot(BitAnd(c.controlA, 15), BitAnd(data, 15)))])
        [] reg = RTC_CONTROL_B ->
             LET r == raiseInterruptIfEnabled(rtcQuiet([c EXCEPT !.controlB = data]),
                                              RTC_KSF, RTC_KIE)
             IN  IF BitAnd(r.card.controlB, RTC_WDE) # 0
                 THEN [r EXCEPT !.card = reloadWatchdog(r.card)]
                 ELSE r
        [] OTHER -> rtcQuiet(c)

\* RTCCard.tick(frequency): with the oscillator on or off the tick ends in
\* stepWatchdog
rtcTick(c, f) ==
  stepWatchdog(rtcQuiet([c EXCEPT !.cpuFrequency = IF f > 0 THEN f ELSE 2000000]))

\* RTCCard.reset(coldStart)
rtcReset(c, coldStart) ==
  LET z == [c EXCEPT !.watchdogCounterCentis = 0, !.watchdogCycleCounter = 0]
  IN  IF coldStart THEN setKickstartFlag(rtcQuiet(z))
      ELSE rtcQuiet([z EXCEPT !.controlA = BitAnd(@, 240)])

\* The card and the calls counted after a call that left r
rtcAfter(op, reg, value, ret, r) ==
  /\ rtc' = r.card
  /\ rtcOp' = [op |-> op, reg |-> reg, value |-> value, ret |-> ret,
               irqs |-> r.irqs, nmis |-> r.nmis]
  /\ rtcIrqCalls' = rtcIrqCalls + r.irqs
  /\ rtcNmiCalls' = rtcNmiCalls + r.nmis

\* RTCCard.read(address)
Rtc_Read(address) ==
  LET r == rtcRead(rtc, address)
  IN  rtcAfter("read", BitAnd(address, 31), 0, r.ret, rtcQuiet(r.card))

\* RTCCard.write(address, data)
Rtc_Write(address, data) ==
  rtcAfter("write", BitAnd(address, 31), data, 0, rtcWrite(rtc, address, data))

\* RTCCard.tick(frequency)
Rtc_Tick(f) == rtcAfter("tick", 0, 0, 0, rtcTick(rtc, f))

\* RTCCard.reset(coldStart)
Rtc_Reset(coldStart) == rtcAfter("reset", 0, 0, 0, rtcReset(rtc, coldStart))

RtcInit ==
  /\ rtc = RtcNew
  /\ rtcOp = [op |-> "new", reg |-> 0, value |-> 0, ret |-> 0, irqs |-> 0, nmis |-> 0]
  /\ rtcIrqCalls = 0
  /\ rtcNmiCalls = 0

(***************************************************************************)
(* Machine: the bus, the I/O tick interval and the interrupt wiring.       *)
(***************************************************************************)
VARIABLES
  frequency,           \* Machine.frequency
  ioCycleAccumulator,  \* Machine.ioCycleAccumulator
  cpuIrqCalls,         \* how many times cpu.irq() has been invoked by a card
  cpu,                 \* Machine.cpu: where it executes, the I flag and cyclesRem
  cpuOp,               \* the last interrupt a card raised and the cyclesRem it found
  machineCycles,       \* how many times Machine.tick has run
  portOps,             \* how many steps a bounded driver has made: accesses of the
                       \* VDP ports, ticks of the SID
  ioTicks,             \* for each card, how many times its tick has been called
  rom,                 \* Machine.rom: the bytes of ROM.data
  romLoaded,           \* the bytes ROM.load was last given
  cart,                \* Machine.cart: the bytes of Cart.data, or NoCart
  mem,                 \* Machine.ram: the bytes of RAM.data
  ram2,                \* Machine.io2, the second RAMCard
  busOp                \* the last call of Machine.read or Machine.write

ioTickInterval == 128

\* RAM.START, RAM.END
RAM_START == 0
RAM_END == 32767

\* ROM.START, ROM.CODE, ROM.END, ROM.SIZE
ROM_START == 32768
ROM_CODE == 40960
ROM_END == 65535
ROM_SIZE == ROM_END - ROM_START + 1

\* Cart.START, Cart.CODE, Cart.END
CART_START == 32768
CART_CODE == 49152
CART_END == 65535

machineVars == <<frequency, ioCycleAccumulator, cpuIrqCalls, cpu, cpuOp, machineCycles, ioTicks,
                 rom, romLoaded, cart, mem, ram2, busOp>>

\* The indexes of ROM.data and Cart.data that are read: those of the first
\* byte of the ROM code, of the first byte of the cart code and of the last
\* byte
RomOffsets == {ROM_CODE - ROM_START, CART_CODE - CART_START, ROM_END - ROM_START}

\* The addresses of the RAM that are accessed
MemAddresses == {RAM_START, RAM_END}

\* Machine.cart before loadCart
NoCart == << >>

\* A ROM, a Cart and a RAM after construction: all bytes 0
RomNew == [o \in RomOffsets |-> 0]
MemNew == [a \in MemAddresses |-> 0]

\* ROM.load(data): data of another length than ROM.SIZE is refused
romLoad(r, data, length) == IF length = ROM_SIZE THEN data ELSE r

\* ROM.read(address), Cart.read(address), RAM.read(address)
romRead(r, address) == r[address]
cartRead(c, address) == c[address]
memRead(m, address) == m[address]

\* RAM.write(address, data)
memWrite(m, address, data) == [m EXCEPT ![address] = data]

\* The 1KB window of the bus that starts at base
inWindow(address, base) == address >= base /\ address <= base + 1023

\* `this.ioCycleAccumulator > this.ioTickInterval` in place of `>=`
ioTickDueLate(accumulator) == accumulator > ioTickInterval

\* `this.ioCycleAccumulator >= this.ioTickInterval` of Machine.tick
ioTickDue(accumulator) == accumulator >= ioTickInterval

\* The cards Machine.tick ticks every ioTickInterval cycles
intervalTicked == {"io3", "io4", "io6", "io7", "io8"}

\* The eight I/O cards of the Machine
Cards == {"io1", "io2", "io3", "io4", "io5", "io6", "io7", "io8"}

\* The cards whose raiseIRQ the constructor assigns `() => this.cpu.irq()`:
\* the RTCCard, the SerialCard and the VideoCard.  The others keep the empty
\* function they are constructed with.
irqWired == {"io3", "io5", "io8"}

\* The cards whose raiseNMI the constructor assigns `() => this.cpu.nmi()`
nmiWired == {"io3", "io5", "io8"}

\* The GPIOCard of a constructed Machine: the keyboard matrix and the keyboard
\* encoder attached to both ports, the joystick to port B.
MachineVia ==
  attachToPortB(
    attachToPortB(
      attachToPortA(
        attachToPortB(
          attachToPortA(ViaResetState, "matrix"),
          "matrix"),
        "encoder"),
      "encoder"),
    "joystick")

\* The calls of cpu.irq() a call on the SerialCard (io5) has made
serIrqs == IF "io5" \in irqWired /\ serOp'.irq THEN 1 ELSE 0

\* The CPU: where it executes, the IRQ-disable flag and the cycles that
\* remain of the instruction being metered.  Its instructions are not
\* modelled: an instruction takes 2 or 3 cycles, and the IRQ-disable flag,
\* once an interrupt has set it, stays set.
InstructionCycles == {2, 3}

\* new CPU(read, write) and CPU.reset(): seven cycles scheduled, IRQ-disable
\* clear
CpuNew == [pc |-> "reset", i |-> FALSE, cyclesRem |-> 7]

\* CPU.tick() where the instruction fetched takes n cycles: with no cycle
\* remaining the instruction is executed whole and leaves n - 1 cycles,
\* otherwise one cycle is consumed
cpuTick(c, n) ==
  IF c.cyclesRem = 0
  THEN [c EXCEPT !.pc = IF @ = "reset" THEN "program" ELSE @, !.cyclesRem = n - 1]
  ELSE [c EXCEPT !.cyclesRem = @ - 1]

\* CPU.irq() called irqs times and CPU.nmi() called nmis times: irq() with
\* IRQ-disable clear, and nmi(), push pc and the status, set IRQ-disable, load
\* pc from the vector and add 7 cycles, when they are called
cpuInterrupt(c, irqs, nmis) ==
  IF nmis > 0 \/ (irqs > 0 /\ ~c.i)
  THEN [pc |-> IF nmis > 0 THEN "nmi" ELSE "irq", i |-> TRUE,
        cyclesRem |-> c.cyclesRem + 7]
  ELSE c

\* The CPU c after the calls of irq() and nmi() the cards made through
\* raiseIRQ and raiseNMI; op is recorded where an interrupt was entered, with
\* the cycles that remained
cpuAfter(c, op, irqs, nmis) ==
  /\ cpu' = cpuInterrupt(c, irqs, nmis)
  /\ cpuOp' = [op |-> IF cpu' = c THEN "none" ELSE op, pc |-> cpu'.pc, rem |-> c.cyclesRem]

\* The calls of cpu.nmi() a call on the RTCCard (io3) has made
rtcNmis == IF "io3" \in nmiWired THEN rtcOp'.nmis ELSE 0

\* The calls of cpu.irq() a call on the RTCCard (io3) has made
rtcIrqs == IF "io3" \in irqWired THEN rtcOp'.irqs ELSE 0

\* Machine.tick: cpu.tick(), then the ticks of the cards, whose raiseIRQ and
\* raiseNMI call cpu.irq() and cpu.nmi().  The bus accesses cpu.tick() makes
\* are the steps Machine_Read and Machine_Write.  The SerialCard is ticked every cycle;
\* every ioTickInterval cycles io3, io4, io6, io7 and io8 are ticked.
Machine_Tick ==
  /\ machineCycles' = machineCycles + 1
  /\ Ser_Tick(frequency)
  /\ IF ioTickDue(ioCycleAccumulator + 1)
     THEN /\ Rtc_Tick(frequency)
          /\ Sto_Tick
          /\ VIA_Tick
          /\ Snd_Tick
          /\ VDP_Tick(frequency)
          /\ ioCycleAccumulator' = 0
          /\ ioTicks' = [c \in Cards |->
                           IF c = "io5" \/ c \in intervalTicked
                           THEN ioTicks[c] + 1 ELSE ioTicks[c]]
          /\ cpuIrqCalls' = cpuIrqCalls + serIrqs + rtcIrqs
               + (IF "io6" \in irqWired THEN viaIrqCalls' - viaIrqCalls ELSE 0)
               + (IF "io8" \in irqWired THEN vdpIrqCalls' - vdpIrqCalls ELSE 0)
     ELSE /\ ioCycleAccumulator' = ioCycleAccumulator + 1
          /\ ioTicks' = [ioTicks EXCEPT !["io5"] = @ + 1]
          /\ cpuIrqCalls' = cpuIrqCalls + serIrqs
          /\ UNCHANGED <<viaVars, vdpVars, stoVars, rtcVars, sndVars>>
  /\ \E n \in InstructionCycles :
       cpuAfter(cpuTick(cpu, n), "tick", cpuIrqCalls' - cpuIrqCalls,
                IF ioTickDue(ioCycleAccumulator + 1) THEN rtcNmis ELSE 0)
  /\ UNCHANGED <<frequency, ramVars, rom, romLoaded, cart, mem, ram2, busOp>>

\* What Machine.tick leaves alone when a bus access is made
busUnchanged == <<frequency, ioCycleAccumulator, machineCycles, ioTicks, romLoaded, cart>>

\* The call of Machine.read or Machine.write recorded, with the addresses of
\* the ROM written since the ROM was loaded
busRecord(op, address, data, ret) ==
  busOp' = [op |-> op, address |-> address, data |-> data, ret |-> ret,
            romWrites |-> IF op = "write" /\ address >= ROM_CODE /\ address <= ROM_END
                          THEN busOp.romWrites \cup {address}
                          ELSE busOp.romWrites]

\* A write that stores the byte in the ROM
Machine_WriteThrough(address, data) ==
  /\ busRecord("write", address, data, 0)
  /\ rom' = IF address >= ROM_CODE /\ address <= ROM_END
            THEN [rom EXCEPT ![address - ROM_START] = data] ELSE rom
  /\ UNCHANGED <<viaVars, vdpVars, stoVars, serVars, ramVars, rtcVars, sndVars,
                 mem, ram2, cpuIrqCalls, cpu, cpuOp, busUnchanged>>

\* Machine.write(address, data).  An address of no window (the ROM and the
\* cart) is written nowhere.
Machine_Write(address, data) ==
  /\ busRecord("write", address, data, 0)
  /\ UNCHANGED <<rom, busUnchanged>>
  /\ CASE address >= RAM_START /\ address <= RAM_END ->
            /\ mem' = memWrite(mem, address, data)
            /\ UNCHANGED <<viaVars, vdpVars, stoVars, serVars, ramVars, ram2, cpuIrqCalls, cpu, cpuOp, rtcVars, sndVars>>
       [] inWindow(address, 32768) ->
            /\ Ram_Write(address - 32768, data)
            /\ UNCHANGED <<viaVars, vdpVars, stoVars, serVars, mem, ram2, cpuIrqCalls, cpu, cpuOp, rtcVars, sndVars>>
       [] inWindow(address, 33792) ->
            /\ ram2' = ramWrite(ram2, address - 33792, data)
            /\ UNCHANGED <<viaVars, vdpVars, stoVars, serVars, ramVars, mem, cpuIrqCalls, cpu, cpuOp, rtcVars, sndVars>>
       [] inWindow(address, 34816) ->
            /\ Rtc_Write(address - 34816, data)
            /\ cpuIrqCalls' = cpuIrqCalls + rtcIrqs
            /\ cpuAfter(cpu, "bus", rtcIrqs, 0)
            /\ UNCHANGED <<viaVars, vdpVars, stoVars, serVars, ramVars, sndVars, mem, ram2>>
       [] inWindow(address, 35840) ->
            /\ Sto_Write(address - 35840, data)
            /\ UNCHANGED <<viaVars, vdpVars, serVars, ramVars, mem, ram2, cpuIrqCalls, cpu, cpuOp, rtcVars, sndVars>>
       [] inWindow(address, 36864) ->
            /\ Ser_Write(address - 36864, data)
            /\ cpuIrqCalls' = cpuIrqCalls + serIrqs
            /\ cpuAfter(cpu, "bus", serIrqs, 0)
            /\ UNCHANGED <<viaVars, vdpVars, stoVars, ramVars, mem, ram2, rtcVars, sndVars>>
       [] inWindow(address, 37888) ->
            /\ VIA_Write(address - 37888, data)
            /\ UNCHANGED <<vdpVars, stoVars, serVars, ramVars, mem, ram2, cpuIrqCalls, cpu, cpuOp, rtcVars, sndVars>>
       [] inWindow(address, 38912) ->
            /\ Snd_Write(address - 38912, data)
            /\ UNCHANGED <<viaVars, vdpVars, stoVars, serVars, ramVars, rtcVars, mem, ram2,
                           cpuIrqCalls, cpu, cpuOp>>
       [] inWindow(address, 39936) ->
            /\ VDP_Write(address - 39936, data)
            /\ UNCHANGED <<viaVars, stoVars, serVars, ramVars, mem, ram2, cpuIrqCalls, cpu, cpuOp, rtcVars, sndVars>>
       [] OTHER ->
            UNCHANGED <<viaVars, vdpVars, stoVars, serVars, ramVars, mem, ram2, cpuIrqCalls, cpu, cpuOp, rtcVars, sndVars>>

\* Machine.read(address): the cart, where there is one, then the ROM, the
\* RAM and the windows of the cards.  A read of a card may change the card.
Machine_Read(address) ==
  /\ UNCHANGED <<rom, mem, ram2, cpuIrqCalls, cpu, cpuOp, busUnchanged>>
  /\ CASE cart # NoCart /\ address >= CART_CODE /\ address <= CART_END ->
            /\ busRecord("read", address, 0, cartRead(cart, address - CART_START))
            /\ UNCHANGED <<viaVars, vdpVars, stoVars, serVars, ramVars, rtcVars, sndVars>>
       [] address >= ROM_CODE /\ address <= ROM_END ->
            /\ busRecord("read", address, 0, romRead(rom, address - ROM_START))
            /\ UNCHANGED <<viaVars, vdpVars, stoVars, serVars, ramVars, rtcVars, sndVars>>
       [] address >= RAM_START /\ address <= RAM_END ->
            /\ busRecord("read", address, 0, memRead(mem, address))
            /\ UNCHANGED <<viaVars, vdpVars, stoVars, serVars, ramVars, rtcVars, sndVars>>
       [] inWindow(address, 32768) ->
            /\ Ram_Read(address - 32768)
            /\ busRecord("read", address, 0, ramOp'.ret)
            /\ UNCHANGED <<viaVars, vdpVars, stoVars, serVars, rtcVars, sndVars>>
       [] inWindow(address, 33792) ->
            /\ busRecord("read", address, 0, ramRead(ram2, address - 33792))
            /\ UNCHANGED <<viaVars, vdpVars, stoVars, serVars, ramVars, rtcVars, sndVars>>
       [] inWindow(address, 34816) ->
            /\ Rtc_Read(address - 34816)
            /\ busRecord("read", address, 0, rtcOp'.ret)
            /\ UNCHANGED <<viaVars, vdpVars, stoVars, serVars, ramVars, sndVars>>
       [] inWindow(address, 35840) ->
            /\ Sto_Read(address - 35840)
            /\ busRecord("read", address, 0, stoOp'.ret)
            /\ UNCHANGED <<viaVars, vdpVars, serVars, ramVars, rtcVars, sndVars>>
       [] inWindow(address, 36864) ->
            /\ Ser_Read(address - 36864)
            /\ busRecord("read", address, 0, serOp'.ret)
            /\ UNCHANGED <<viaVars, vdpVars, stoVars, ramVars, rtcVars, sndVars>>
       [] inWindow(address, 37888) ->
            /\ VIA_Read(address - 37888)
            /\ busRecord("read", address, 0, viaOp'.ret)
            /\ UNCHANGED <<vdpVars, stoVars, serVars, ramVars, rtcVars, sndVars>>
       [] inWindow(address, 38912) ->
            /\ Snd_Read(address - 38912)
            /\ busRecord("read", address, 0, sndOp'.ret)
            /\ UNCHANGED <<viaVars, vdpVars, stoVars, serVars, ramVars, rtcVars>>
       [] inWindow(address, 39936) ->
            /\ VDP_Read(address - 39936)
            /\ busRecord("read", address, 0, vdpOp'.ret)
            /\ UNCHANGED <<viaVars, stoVars, serVars, ramVars, rtcVars, sndVars>>
       [] OTHER ->
            /\ busRecord("read", address, 0, 0)
            /\ UNCHANGED <<viaVars, vdpVars, stoVars, serVars, ramVars, rtcVars, sndVars>>

\* Machine.loadROM(path): the bytes of the file are given to ROM.load
Machine_LoadROM(data, length) ==
  /\ rom' = romLoad(rom, data, length)
  /\ romLoaded' = romLoad(rom, data, length)
  /\ busOp' = [op |-> "loadROM", address |-> 0, data |-> 0, ret |-> 0,
               romWrites |-> {}]
  /\ UNCHANGED <<viaVars, vdpVars, stoVars, serVars, ramVars, sndVars, rtcVars, mem, ram2, cart,
                 frequency, ioCycleAccumulator, cpuIrqCalls, cpu, cpuOp, machineCycles, ioTicks>>

\* Machine.loadCart(path): a new Cart with the bytes of the file
Machine_LoadCart(data) ==
  /\ cart' = data
  /\ busOp' = [op |-> "loadCart", address |-> 0, data |-> 0, ret |-> 0,
               romWrites |-> busOp.romWrites]
  /\ UNCHANGED <<viaVars, vdpVars, stoVars, serVars, ramVars, sndVars, rtcVars, mem, ram2, rom, romLoaded,
                 frequency, ioCycleAccumulator, cpuIrqCalls, cpu, cpuOp, machineCycles, ioTicks>>

\* machine.frequency = f, by the host
Machine_SetFrequency(f) ==
  /\ frequency' = f
  /\ UNCHANGED <<viaVars, vdpVars, stoVars, serVars, ramVars, rtcVars, sndVars,
                 ioCycleAccumulator, cpuIrqCalls, cpu, cpuOp, machineCycles, ioTicks,
                 rom, romLoaded, cart, mem, ram2, busOp>>

\* The fields of a Machine after construction that belong to no card
BusInit ==
  /\ frequency = 2000000
  /\ ioCycleAccumulator = 0
  /\ cpuIrqCalls = 0
  /\ cpu = CpuNew
  /\ cpuOp = [op |-> "new", pc |-> "reset", rem |-> 7]
  /\ machineCycles = 0
  /\ ioTicks = [c \in Cards |-> 0]
  /\ rom = RomNew
  /\ romLoaded = RomNew
  /\ cart = NoCart
  /\ mem = MemNew
  /\ ram2 = RamNew
  /\ busOp = [op |-> "new", address |-> 0, data |-> 0, ret |-> 0, romWrites |-> {}]

(***************************************************************************)
(* Machine.loop: the host's main loop, which turns the wall-clock time     *)
(* elapsed since its last iteration into CPU cycles.  The accumulator      *)
(* _accumulatorMs is a number of milliseconds; it is kept here multiplied  *)
(* by the frequency, so that 1000 units are one CPU cycle and the          *)
(* arithmetic is exact.  The machine is alive and running.                 *)
(***************************************************************************)
VARIABLE loop   \* Machine.loop: _accumulatorMs and where the iteration stands

maxCatchUpMs == 250

\* One CPU cycle in the units of the accumulator
UNITS_PER_CYCLE == 1000

\* The loop before its first iteration: _accumulatorMs ?? 0
LoopNew ==
  [accumulator |-> 0, pos |-> "idle", ticksToRun |-> 0, left |-> 0,
   before |-> 0, elapsedMs |-> 0, startCycles |-> 0, frequency |-> 0]

\* The accumulation without the catch-up limit
loopAccumulateUnclamped(accumulator, elapsedMs, f) == accumulator + elapsedMs * f

\* accumulator += elapsedMs; if (accumulator > maxCatchUpMs) accumulator = maxCatchUpMs
loopAccumulate(accumulator, elapsedMs, f) ==
  IF accumulator + elapsedMs * f > maxCatchUpMs * f
  THEN maxCatchUpMs * f
  ELSE accumulator + elapsedMs * f

\* The iteration up to the for loop, with ticksToRun the
\* Math.floor(accumulator * ticksPerMs); with no tick to run the accumulator
\* is stored at once
Loop_Begin(elapsedMs) ==
  /\ loop.pos = "idle"
  /\ LET accumulator == loopAccumulate(loop.accumulator, elapsedMs, frequency)
         ticksToRun  == accumulator \div UNITS_PER_CYCLE
     IN loop' = [accumulator |-> accumulator,
                 pos         |-> IF ticksToRun > 0 THEN "ticking" ELSE "idle",
                 ticksToRun  |-> ticksToRun,
                 left        |-> ticksToRun,
                 before      |-> loop.accumulator,
                 elapsedMs   |-> elapsedMs,
                 startCycles |-> machineCycles,
                 frequency   |-> frequency]
  /\ UNCHANGED <<viaVars, vdpVars, machineVars, stoVars, serVars, ramVars, sndVars, rtcVars>>

\* One pass of the for loop: the body is that of Machine.tick
Loop_Tick ==
  /\ loop.pos = "ticking"
  /\ loop.left > 0
  /\ Machine_Tick
  /\ loop' = [loop EXCEPT !.left = @ - 1]

\* After the for loop: accumulator -= ticksToRun / ticksPerMs, and the
\* accumulator is stored
Loop_End ==
  /\ loop.pos = "ticking"
  /\ loop.left = 0
  /\ loop' = [loop EXCEPT !.accumulator = @ - loop.ticksToRun * UNITS_PER_CYCLE,
                          !.pos = "idle"]
  /\ UNCHANGED <<viaVars, vdpVars, machineVars, stoVars, serVars, ramVars, sndVars, rtcVars>>

\* A Machine after construction
MachineInit ==
  /\ via = MachineVia
  /\ att = [id \in AttIds |-> AttInit]
  /\ viaIrqCalls = 0
  /\ viaOp = [op |-> "new", reg |-> 0, value |-> 0, ret |-> 0]
  /\ viaScen = 0
  /\ enc = encUpdateControlLines(EncNew, FALSE, FALSE, FALSE, FALSE)
  /\ encOp = [op |-> "attach", output |-> FALSE]
  /\ VdpInit
  /\ StoInit
  /\ SerInit
  /\ RamInit
  /\ SndInit
  /\ RtcInit
  /\ BusInit
  /\ portOps = 0
  /\ loop = LoopNew

(***************************************************************************)
(* The whole state, and the card-level specifications.                     *)
(***************************************************************************)
vars == <<viaVars, vdpVars, machineVars, portOps, loop, stoVars, serVars, ramVars, sndVars, rtcVars>>

\* The cards on their own, newly constructed
Init ==
  /\ ViaInit
  /\ VdpInit
  /\ StoInit
  /\ SerInit
  /\ RamInit
  /\ SndInit
  /\ RtcInit
  /\ BusInit
  /\ portOps = 0
  /\ loop = LoopNew

notVia == <<vdpVars, machineVars, portOps, loop, stoVars, serVars, ramVars, sndVars, rtcVars>>
notVdp == <<viaVars, machineVars, loop, stoVars, serVars, ramVars, sndVars, rtcVars>>
notSto == <<viaVars, vdpVars, machineVars, portOps, loop, serVars, ramVars, sndVars, rtcVars>>
notSer == <<viaVars, vdpVars, machineVars, portOps, loop, stoVars, ramVars, sndVars, rtcVars>>
notRam == <<viaVars, vdpVars, machineVars, portOps, loop, stoVars, serVars, sndVars, rtcVars>>
notSnd == <<viaVars, vdpVars, machineVars, portOps, loop, stoVars, serVars, ramVars, rtcVars>>
notRtc == <<viaVars, vdpVars, machineVars, portOps, loop, stoVars, serVars, ramVars, sndVars>>

\* Bound on the raiseIRQ calls counted
MaxIrqCalls == 3

\* The largest count a timer is started with
MaxTimerCount == 2

\* The registers and values written in the timer specification
TimerWrites ==
  { <<VIA_IER, 192>>, <<VIA_IER, 64>>, <<VIA_IER, 130>>, <<VIA_IER, 2>>,
    <<VIA_T1CL, 1>>, <<VIA_T1CL, 2>>, <<VIA_T1CH, 0>>,
    <<VIA_T2CL, 1>>, <<VIA_T2CH, 0>>,
    <<VIA_ACR, 64>>, <<VIA_ACR, 0>>, <<VIA_IFR, 64>> }

TimerReads == {VIA_IER, VIA_IFR, VIA_T1CL, VIA_T2CL}

\* The count a write of a high-byte counter register would start its timer with
startCount(v, w) ==
  IF w[1] = VIA_T1CH THEN BitOr(BitAnd(v.regT1L, 255), w[2] * 256)
  ELSE IF w[1] = VIA_T2CH THEN BitOr(w[2] * 256, v.regT2L)
  ELSE 0

TimerWrite ==
  /\ \E w \in TimerWrites :
       /\ startCount(via, w) <= MaxTimerCount
       /\ VIA_Write(w[1], w[2])
  /\ UNCHANGED notVia

TimerRead == \E r \in TimerReads : VIA_Read(r) /\ UNCHANGED notVia

TimerTick == viaIrqCalls < MaxIrqCalls /\ VIA_Tick /\ UNCHANGED notVia

TimerReset == VIA_Reset /\ UNCHANGED notVia

NextVIATimer == TimerWrite \/ TimerRead \/ TimerTick \/ TimerReset

SpecVIATimer == Init /\ [][NextVIATimer]_vars

(***************************************************************************)
(* SpecVIAPort: the data ports of the card, with attachments behind them.  *)
(***************************************************************************)
PortWrites ==
  { <<VIA_ORA, 165>>, <<VIA_DDRA, 15>>, <<VIA_DDRA, 0>>, <<VIA_DDRB, 240>> }

PortReads == {VIA_ORA, VIA_ORB, VIA_ORA_NH}

\* What the devices behind the attachments do in this specification
PortDeviceEvents ==
  { <<"encoder", "portAValue", 60>>, <<"matrix", "portAValue", 102>>,
    <<"matrix", "portAValue", 255>>, <<"encoder", "portBValue", 102>>,
    <<"matrix", "enabled", FALSE>>, <<"encoder", "enabled", FALSE>>,
    <<"encoder", "enabled", TRUE>> }

PortAtts == {"matrix", "encoder"}

onList(list, id) == \E i \in 1..Len(list) : list[i] = id

PortWrite == \E w \in PortWrites : VIA_Write(w[1], w[2]) /\ UNCHANGED notVia

PortRead == \E r \in PortReads : VIA_Read(r) /\ UNCHANGED notVia

\* An attachment object is attached to a port at most once, as the Machine does.
PortAttach ==
  /\ \E id \in PortAtts, port \in {"A", "B"} :
       /\ ~onList(IF port = "A" THEN via.portA_attachments ELSE via.portB_attachments, id)
       /\ VIA_Attach(port, id)
  /\ UNCHANGED notVia

PortDevice == \E e \in PortDeviceEvents : Att_Set(e[1], e[2], e[3]) /\ UNCHANGED notVia

PortReset == VIA_Reset /\ UNCHANGED notVia

NextVIAPort == PortWrite \/ PortRead \/ PortAttach \/ PortDevice \/ PortReset

SpecVIAPort == Init /\ [][NextVIAPort]_vars

(***************************************************************************)
(* SpecVIALines: the control-line interrupts of the attachments.           *)
(***************************************************************************)
LinesDeviceEvents ==
  { <<"encoder", "ca1Interrupt", TRUE>>, <<"encoder", "cb2Interrupt", TRUE>>,
    <<"matrix", "ca2Interrupt", TRUE>>, <<"matrix", "cb1Interrupt", TRUE>> }

LinesWrite == \E r \in {VIA_ORA, VIA_ORB} : VIA_Write(r, 0) /\ UNCHANGED notVia

LinesRead == \E r \in {VIA_ORA, VIA_ORB} : VIA_Read(r) /\ UNCHANGED notVia

LinesTick == viaIrqCalls < MaxIrqCalls /\ VIA_Tick /\ UNCHANGED notVia

LinesAttach ==
  /\ \E id \in PortAtts, port \in {"A", "B"} :
       /\ ~onList(IF port = "A" THEN via.portA_attachments ELSE via.portB_attachments, id)
       /\ VIA_Attach(port, id)
  /\ UNCHANGED notVia

LinesDevice == \E e \in LinesDeviceEvents : Att_Set(e[1], e[2], e[3]) /\ UNCHANGED notVia

NextVIALines == LinesWrite \/ LinesRead \/ LinesTick \/ LinesAttach \/ LinesDevice

SpecVIALines == Init /\ [][NextVIALines]_vars

(***************************************************************************)
(* SpecMachine: a constructed Machine running a program that sets up T1.   *)
(***************************************************************************)
\* Bound on the cycles the Machine is run for
MaxMachineCycles == 256

\* The bus writes of the program: IER := 0xC0 (0x940E), T1 low := 0x01
\* (0x9404), T1 high := 0x00 (0x9405)
MachineWrites == { <<37902, 192>>, <<37892, 1>>, <<37893, 0>> }

MachineStep == machineCycles < MaxMachineCycles /\ Machine_Tick /\ UNCHANGED <<portOps, loop>>

MachineBusWrite ==
  /\ \E w \in MachineWrites : Machine_Write(w[1], w[2])
  /\ UNCHANGED <<portOps, loop>>

NextMachine == MachineStep \/ MachineBusWrite

SpecMachine == MachineInit /\ [][NextMachine]_vars

(***************************************************************************)
(* SpecVDPPort: the control and data ports of the VDP.                     *)
(***************************************************************************)
\* Bound on the port accesses made
MaxPortOps == 7

\* The bytes written to the control port: 0x3F and 0x7F as the second byte
\* set a read and a write address in page 0x3F, 0xFF writes a register.
PortCtlBytes == {63, 127, 255}

PortDataBytes == {66, 153}

VdpPortCtl ==
  /\ portOps < MaxPortOps
  /\ portOps' = portOps + 1
  /\ \E b \in PortCtlBytes : VDP_Write(1, b)
  /\ UNCHANGED notVdp

VdpPortWriteData ==
  /\ portOps < MaxPortOps
  /\ portOps' = portOps + 1
  /\ \E b \in PortDataBytes : VDP_Write(0, b)
  /\ UNCHANGED notVdp

VdpPortRead ==
  /\ portOps < MaxPortOps
  /\ portOps' = portOps + 1
  /\ \E a \in {0, 1} : VDP_Read(a)
  /\ UNCHANGED notVdp

NextVDPPort == VdpPortCtl \/ VdpPortWriteData \/ VdpPortRead

SpecVDPPort == Init /\ [][NextVDPPort]_vars

(***************************************************************************)
(* SpecVDPRender: scanlines, sprites and the status register.              *)
(***************************************************************************)
\* Display on, and display on with the frame interrupt enabled
RenderR1Values == {64, 96}

\* Sprite 5 made the end-of-list sentinel; sprite 4 moved down to lines 4..11
RenderVramEvents == { <<20, 208>>, <<16, 3>> }

\* The card is ticked through the first scanlines of a frame
MaxScanline == 12

\* Frequencies at which a tick is exactly one and exactly two scanlines
RenderFrequencies == {2012160, 1006080}

RenderSetRegister ==
  /\ \E v \in RenderR1Values : VDP_SetRegister(TMS_REG_1, v)
  /\ UNCHANGED <<notVdp, portOps>>

RenderSetVram ==
  /\ \E e \in RenderVramEvents : VDP_SetVramByte(e[1], e[2])
  /\ UNCHANGED <<notVdp, portOps>>

RenderTick ==
  /\ vdp.currentScanline < MaxScanline
  /\ \E f \in RenderFrequencies : VDP_Tick(f)
  /\ UNCHANGED <<notVdp, portOps>>

RenderReadStatus == VDP_Read(1) /\ UNCHANGED <<notVdp, portOps>>

RenderReset == VDP_Reset /\ UNCHANGED <<notVdp, portOps>>

NextVDPRender ==
  RenderSetRegister \/ RenderSetVram \/ RenderTick \/ RenderReadStatus \/ RenderReset

SpecVDPRender == Init /\ [][NextVDPRender]_vars

(***************************************************************************)
(* SpecVIALive: a program that sets the low latches and the mode of the    *)
(* timers, starts a timer that is not running by writing 0x00 to its       *)
(* high-byte counter register, and a VIA that keeps being ticked.          *)
(***************************************************************************)
\* The largest low latch byte written
MaxLiveCount == 3

LiveSetLatch ==
  /\ \E r \in {VIA_T1CL, VIA_T2CL}, b \in 0..MaxLiveCount :
       /\ ~(IF r = VIA_T1CL THEN via.T1_running ELSE via.T2_running)
       /\ VIA_Write(r, b)
  /\ UNCHANGED notVia

\* One-shot and free-run mode of Timer 1
LiveSetMode ==
  /\ ~via.T1_running
  /\ \E m \in {0, 64} : VIA_Write(VIA_ACR, m)
  /\ UNCHANGED notVia

LiveStartT1 ==
  /\ ~via.T1_running
  /\ BitAnd(via.regT1L, 255) <= MaxLiveCount
  /\ VIA_Write(VIA_T1CH, 0)
  /\ UNCHANGED notVia

LiveStartT2 ==
  /\ ~via.T2_running
  /\ via.regT2L <= MaxLiveCount
  /\ VIA_Write(VIA_T2CH, 0)
  /\ UNCHANGED notVia

LiveTick == VIA_Tick /\ UNCHANGED notVia

NextVIALive == LiveSetLatch \/ LiveSetMode \/ LiveStartT1 \/ LiveStartT2 \/ LiveTick

\* Machine.tick keeps ticking the card while the machine runs
SpecVIALive == Init /\ [][NextVIALive]_vars /\ WF_vars(LiveTick)

(***************************************************************************)
(* SpecEncoder: the VIA of a Machine, with the keyboard encoder on both    *)
(* ports, a program that drives CA2 and CB2, reads the ports and IFR, and  *)
(* a host that sends key events.                                           *)
(***************************************************************************)
\* PCR: CA2 and CB2 driven low (both ports enabled), both driven high (both
\* disabled), and CA2 high with CB2 low
EncWrites == { <<VIA_PCR, 204>>, <<VIA_PCR, 238>>, <<VIA_PCR, 206>> }

EncReads == {VIA_ORA, VIA_ORB, VIA_IFR}

\* Presses of 'a', '2' and keycode 3, which has no mapping, a release, Ctrl
\* down and up
EncKeyEvents ==
  { <<HID_A, TRUE>>, <<HID_A, FALSE>>, <<HID_2, TRUE>>, <<3, TRUE>>,
    <<HID_LCTRL, TRUE>>, <<HID_LCTRL, FALSE>> }

EncWrite == \E w \in EncWrites : Enc_ViaWrite(w[1], w[2]) /\ UNCHANGED notVia

EncRead == \E r \in EncReads : Enc_ViaRead(r) /\ UNCHANGED notVia

EncTick == Enc_ViaTick /\ UNCHANGED notVia

EncKey == \E e \in EncKeyEvents : Enc_UpdateKey(e[1], e[2]) /\ UNCHANGED notVia

EncReset == Enc_ViaReset /\ UNCHANGED notVia

NextEncoder == EncWrite \/ EncRead \/ EncTick \/ EncKey \/ EncReset

SpecEncoder == MachineInit /\ [][NextEncoder]_vars

(***************************************************************************)
(* SpecVDPFrame: the card ticked a scanline at a time through whole        *)
(* frames, with no sprite data in the VRAM, while register 1 is changed.   *)
(***************************************************************************)
\* Bound on the frame interrupts raised
MaxFrameIrqs == 2

\* The frequency at which a tick is exactly one scanline
FrameFrequency == CYCLES_PER_TICK * FRAMES_PER_SECOND * TOTAL_SCANLINES

\* Register 1: display off, display off with the frame interrupt enabled,
\* display on, display on with the frame interrupt enabled, and text mode
\* with the frame interrupt enabled
FrameR1Values == {0, 32, 64, 96, 112}

\* The scanlines at which the program writes register 1: the start of the
\* frame, the last line of the active display and the line after it
FrameSetPoints == {0, TMS_PIXELS_Y - 1, TMS_PIXELS_Y}

FrameSetRegister ==
  /\ vdp.currentScanline \in FrameSetPoints
  /\ \E v \in FrameR1Values : VDP_SetRegister(TMS_REG_1, v)
  /\ UNCHANGED <<notVdp, portOps>>

FrameTick ==
  /\ vdpIrqCalls < MaxFrameIrqs
  /\ VDP_Tick(FrameFrequency)
  /\ UNCHANGED <<notVdp, portOps>>

FrameReadStatus ==
  /\ vdp.currentScanline \in FrameSetPoints
  /\ VDP_Read(1)
  /\ UNCHANGED <<notVdp, portOps>>

NextVDPFrame == FrameSetRegister \/ FrameTick \/ FrameReadStatus

SpecVDPFrame == Init /\ [][NextVDPFrame]_vars

(***************************************************************************)
(* SpecLoop: a running Machine driven by its main loop.  The frequency is  *)
(* set before the first iteration; each iteration is given the time that   *)
(* has elapsed since the one before: a fraction of a cycle, a little more  *)
(* than a cycle, or more than the loop catches up on.                      *)
(***************************************************************************)
MaxLoopCycles == 120

LoopFrequency == 402

LoopElapsedMs == {1, 3, 300}

\* machine.frequency := LoopFrequency
LoopSetFrequency ==
  /\ loop = LoopNew /\ machineCycles = 0 /\ frequency # LoopFrequency
  /\ Machine_SetFrequency(LoopFrequency)
  /\ UNCHANGED <<portOps, loop>>

LoopBegin ==
  \E elapsedMs \in LoopElapsedMs :
    /\ frequency = LoopFrequency
    /\ machineCycles
         + loopAccumulate(loop.accumulator, elapsedMs, frequency) \div UNITS_PER_CYCLE
         <= MaxLoopCycles
    /\ Loop_Begin(elapsedMs)
    /\ UNCHANGED portOps

LoopTick == Loop_Tick /\ UNCHANGED portOps

LoopEnd == Loop_End /\ UNCHANGED portOps

NextLoop == LoopSetFrequency \/ LoopBegin \/ LoopTick \/ LoopEnd

SpecLoop == MachineInit /\ [][NextLoop]_vars

(***************************************************************************)
(* SpecNoise: the SoundCard with its oscillators.  A program sets the      *)
(* frequency of voice 1 and of voice 3, which is the sync source of voice  *)
(* 1, sets and clears the test bit, selects noise with sync, and resets    *)
(* the card, while the card is ticked.  At the frequency 0xFF00 bit 19 of  *)
(* the accumulator rises every 16 cycles, so a tick clocks the LFSR about  *)
(* 8 times.                                                                *)
(***************************************************************************)
MaxNoiseTicks == 3

NoiseWrites ==
  { <<REG_FREQ_HI, 255>>, <<REG_FREQ_LO, 1>>, <<14 + REG_FREQ_HI, 255>>,
    <<REG_CONTROL, CTRL_TEST>>, <<REG_CONTROL, 128 + CTRL_SYNC>> }

NoiseWrite == \E w \in NoiseWrites : Sid_Write(w[1], w[2]) /\ UNCHANGED <<notSnd>>

NoiseTick ==
  /\ portOps < MaxNoiseTicks
  /\ Sid_Tick
  /\ portOps' = portOps + 1
  /\ UNCHANGED <<viaVars, vdpVars, machineVars, loop, stoVars, serVars, ramVars, rtcVars>>

NoiseReset == Sid_Reset /\ UNCHANGED <<notSnd>>

NextNoise == NoiseWrite \/ NoiseTick \/ NoiseReset

SpecNoise == Init /\ [][NextNoise]_vars

(***************************************************************************)
(* SpecAttach: attachments attached to the two ports of a GPIOCard in any  *)
(* order and any number of times, the same object more than once too, and  *)
(* the card reset.                                                         *)
(***************************************************************************)
AttachAny ==
  /\ \E id \in AttIds, port \in {"A", "B"} : VIA_Attach(port, id)
  /\ UNCHANGED notVia

AttachReset == VIA_Reset /\ UNCHANGED notVia

NextAttach == AttachAny \/ AttachReset

SpecAttach == Init /\ [][NextAttach]_vars

(***************************************************************************)
(* SpecStorage: a program driving the StorageCard through its registers.   *)
(***************************************************************************)
\* Bound on the commands written to the command register
MaxStoCommands == 2

\* The payloads written: b[i] = i & 0xFF, and its complement
Payloads == {1, 2}

payloadByte(p, i) == IF p = 1 THEN i % 256 ELSE 255 - (i % 256)

\* The registers set up before a command: sector count 1, and the LBA bytes
\* that make the sector 0x03FFFF (the last of the card) and 0x040000 (the
\* first beyond it)
StoRegWrites == { <<2, 1>>, <<3, 255>>, <<4, 255>>, <<5, 3>>, <<5, 4>> }

\* Read, write and erase a sector, identify, set features, and a command the
\* card does not have
StoCommands == {32, 33, 48, 49, 192, 236, 239, 255}

stoDRQ == BitAnd(sto.status, STATUS_DRQ) # 0

\* The registers are set up while no data is requested
StoSetReg ==
  /\ ~stoDRQ
  /\ \E w \in StoRegWrites : Sto_Write(w[1], w[2])
  /\ UNCHANGED notSto

\* The sectors the program transfers: the first and the last of the card
StoSectors == {0, SECTOR_COUNT - 1}

\* The bytes into a transfer at which the program gives up on it and writes
\* a new command
StoAbortPoints == {0, 1}

\* A command.  A sector is transferred only if it is one of StoSectors (a
\* command for a sector beyond the card is not a transfer), and only when all
\* the sectors counted are on the card.
StoCommand ==
  /\ stoCmds < MaxStoCommands
  /\ sectorValid(sto) =>
       /\ sectorIndex(sto) \in StoSectors
       /\ sectorIndex(sto) + sto.sectorCount <= SECTOR_COUNT
  /\ stoDRQ => stoDrv.n \in StoAbortPoints
  /\ \E c \in StoCommands : Sto_Write(7, c)
  /\ UNCHANGED notSto

\* The next byte of one of the payloads, while the card requests data of a
\* write command
StoWriteData ==
  /\ stoDRQ
  /\ stoDrv.kind = "write"
  /\ \E p \in Payloads :
       /\ stoDrv.n % SECTOR_SIZE > 0 => stoDrv.sent[0] = payloadByte(p, 0)
       /\ Sto_Write(0, payloadByte(p, stoDrv.n % SECTOR_SIZE))
  /\ UNCHANGED notSto

\* A byte read from the data register while the card offers data of a read
\* or identify command
StoReadData ==
  /\ stoDRQ
  /\ stoDrv.kind \in {"read", "identify"}
  /\ Sto_Read(0)
  /\ UNCHANGED notSto

\* The error and the status register read after a command
StoReadReg ==
  /\ stoOp.op = "write" /\ stoOp.reg = 7
  /\ \E r \in {1, 7} : Sto_Read(r)
  /\ UNCHANGED notSto

StoReset == Sto_Reset /\ UNCHANGED notSto

NextStorage ==
  StoSetReg \/ StoCommand \/ StoWriteData \/ StoReadData \/ StoReadReg \/ StoReset

SpecStorage == Init /\ [][NextStorage]_vars

(***************************************************************************)
(* SpecStorageMulti: a program transferring one, two or three sectors.     *)
(***************************************************************************)
\* The sector counts written before a command
MultiCounts == {1, 2, 3}

\* The sector count is set up while no data is requested
MultiSetCount ==
  /\ ~stoDRQ
  /\ \E n \in MultiCounts : Sto_Write(2, n)
  /\ UNCHANGED notSto

\* A read-sector or a write-sector command, written while no data is
\* requested
MultiCommand ==
  /\ stoCmds < MaxStoCommands
  /\ ~stoDRQ
  /\ \E c \in {32, 48} : Sto_Write(7, c)
  /\ UNCHANGED notSto

NextStorageMulti ==
  MultiSetCount \/ MultiCommand \/ StoWriteData \/ StoReadData \/ StoReadReg

SpecStorageMulti == Init /\ [][NextStorageMulti]_vars

(***************************************************************************)
(* SpecStorageRegs: a program that writes the sector count and LBA         *)
(* registers while a transfer is in progress.                              *)
(***************************************************************************)
\* The registers written during a transfer: sector count 1 and 2, LBA0 1
RegsWrites == { <<2, 1>>, <<2, 2>>, <<3, 1>> }

\* A register is written at the start of a transfer or after its first byte
RegsWriteDuring ==
  /\ stoDRQ
  /\ stoDrv.kind \in {"read", "write"}
  /\ stoDrv.n \in StoAbortPoints
  /\ \E w \in RegsWrites : Sto_Write(w[1], w[2])
  /\ UNCHANGED notSto

\* The one read-sector or write-sector command of the program
RegsCommand ==
  /\ stoCmds = 0
  /\ \E c \in {32, 48} : Sto_Write(7, c)
  /\ UNCHANGED notSto

NextStorageRegs ==
  MultiSetCount \/ RegsCommand \/ RegsWriteDuring \/ StoWriteData \/ StoReadData \/ StoReadReg

SpecStorageRegs == Init /\ [][NextStorageRegs]_vars

(***************************************************************************)
(* SpecStorageRaw: a program that writes commands and moves bytes through  *)
(* the data register whatever the card is doing.                           *)
(***************************************************************************)
\* Bound on the commands written to the command register
MaxRawCommands == 3

\* The bytes into a sector at which the program writes a command
\* or changes between reading and writing the data register
RawTurnPoints == {0, 1}

\* The sector count is set to 1
RawSetCount ==
  /\ sto.bufferIndex = 0
  /\ sto.sectorCount # 1
  /\ Sto_Write(2, 1)
  /\ UNCHANGED notSto

\* A read-sector, write-sector or identify command, whatever the card is
\* doing
RawCommand ==
  /\ stoCmds < MaxRawCommands
  /\ sto.bufferIndex \in RawTurnPoints
  /\ \E c \in {32, 48, 236} : Sto_Write(7, c)
  /\ UNCHANGED notSto

\* The data register is written, whatever the card is doing: a run of bytes
\* 0xFF, of one sector at most after a command
RawWriteData ==
  /\ sto.sectorOffset = 0
  /\ sto.bufferIndex \in RawTurnPoints \/ (stoOp.op = "write" /\ stoOp.reg = 0)
  /\ Sto_Write(0, 255)
  /\ UNCHANGED notSto

\* The data register is read while the card transfers
RawReadData ==
  /\ sto.isTransferring \/ sto.isIdentifying
  /\ sto.sectorOffset = 0
  /\ sto.bufferIndex \in RawTurnPoints \/ (stoOp.op = "read" /\ stoOp.reg = 0)
  /\ Sto_Read(0)
  /\ UNCHANGED notSto

NextStorageRaw == RawSetCount \/ RawCommand \/ RawWriteData \/ RawReadData

SpecStorageRaw == Init /\ [][NextStorageRaw]_vars

(***************************************************************************)
(* SpecSound: a program that writes and reads the registers of the SID.    *)
(***************************************************************************)
\* The addresses written and read: FREQ_LO of voice 1, the volume register,
\* POTX, POTY, OSC3, ENV3, one beyond the register file, and 0x39, which is
\* POTX again
SndAddresses == {0, 24, REG_POTX, REG_POTY, REG_OSC3, REG_ENV3, 29, 57}

\* The writes made: 0xFF to FREQ_LO of voice 1, 0x55 to each of the read-back
\* registers and beyond the register file, 0xAA to POTX at 0x39
SndWrites ==
  { <<0, 255>>, <<REG_POTX, 85>>, <<REG_POTY, 85>>, <<REG_OSC3, 85>>,
    <<REG_ENV3, 85>>, <<29, 85>>, <<57, 170>> }

SndWrite == \E w \in SndWrites : Snd_Write(w[1], w[2]) /\ UNCHANGED notSnd

SndRead == \E a \in SndAddresses : Snd_Read(a) /\ UNCHANGED notSnd

SndTick == Snd_Tick /\ UNCHANGED notSnd

NextSound == SndWrite \/ SndRead \/ SndTick

SpecSound == Init /\ [][NextSound]_vars

(***************************************************************************)
(* SpecRTC: a program that sets the watchdog of the RTCCard, and the ticks *)
(* and resets of the card.                                                 *)
(***************************************************************************)
\* Bound on the interrupts the card raises
MaxRtcCalls == 2

\* The writes made: control B := 0, WDE, WDE|WDS, WDE|KIE; watchdog 1 := 0.01 s
\* and 0.02 s; watchdog 2 := 0; control A := 0x0F, which clears the flags
RtcWrites ==
  { <<RTC_CONTROL_B, 0>>, <<RTC_CONTROL_B, 2>>, <<RTC_CONTROL_B, 3>>, <<RTC_CONTROL_B, 6>>,
    <<RTC_WATCHDOG1, 1>>, <<RTC_WATCHDOG1, 2>>, <<RTC_WATCHDOG2, 0>>,
    <<RTC_CONTROL_A, 15>> }

\* The frequencies the card is ticked with: one and two ticks a centisecond
RtcFrequencies == {1, 200}

RtcQuota == rtcIrqCalls + rtcNmiCalls < MaxRtcCalls

RtcWrite == RtcQuota /\ (\E w \in RtcWrites : Rtc_Write(w[1], w[2])) /\ UNCHANGED notRtc

RtcRead ==
  /\ \E a \in {RTC_WATCHDOG1, RTC_WATCHDOG2, RTC_CONTROL_A, RTC_CONTROL_B} : Rtc_Read(a)
  /\ UNCHANGED notRtc

RtcTick == RtcQuota /\ (\E f \in RtcFrequencies : Rtc_Tick(f)) /\ UNCHANGED notRtc

RtcReset == RtcQuota /\ (\E coldStart \in BOOLEAN : Rtc_Reset(coldStart)) /\ UNCHANGED notRtc

NextRTC == RtcWrite \/ RtcRead \/ RtcTick \/ RtcReset

SpecRTC == Init /\ [][NextRTC]_vars

(***************************************************************************)
(* SpecWatchdog: a Machine whose program sets the watchdog of the RTC to   *)
(* 0.02 s and enables it, and that is then run.                            *)
(***************************************************************************)
\* Bound on the cycles the Machine is run for: two intervals of the cards
\* and a few cycles
MaxWatchdogCycles == 260

\* The frequency the host sets: 200 cycles in 10 ms
WatchdogFrequency == 20000

\* machine.frequency := 10000
WatchdogSetFrequency ==
  /\ machineCycles = 0 /\ frequency # WatchdogFrequency /\ rtc.watchdog1 = 0
  /\ Machine_SetFrequency(WatchdogFrequency)
  /\ UNCHANGED <<portOps, loop>>

\* Watchdog 1 := 0x02 (0x880C): 0.02 s
WatchdogSet ==
  /\ machineCycles = 0 /\ rtc.watchdog1 = 0
  /\ Machine_Write(34828, 2)
  /\ UNCHANGED <<portOps, loop>>

\* Control B := WDE (0x880F)
WatchdogEnable ==
  /\ machineCycles = 0 /\ rtc.watchdog1 = 2 /\ rtc.controlB = 0
  /\ Machine_Write(34831, RTC_WDE)
  /\ UNCHANGED <<portOps, loop>>

WatchdogRun ==
  /\ rtc.controlB = RTC_WDE
  /\ machineCycles < MaxWatchdogCycles
  /\ Machine_Tick
  /\ UNCHANGED <<portOps, loop>>

NextWatchdog == WatchdogSetFrequency \/ WatchdogSet \/ WatchdogEnable \/ WatchdogRun

SpecWatchdog == MachineInit /\ [][NextWatchdog]_vars

(***************************************************************************)
(* SpecIrq: a Machine whose program enables the transmit interrupt of the  *)
(* ACIA and writes a byte to it, and that is then run until the byte has   *)
(* been sent.                                                              *)
(***************************************************************************)
\* Bound on the cycles the Machine is run for: a byte takes 173 cycles at
\* 115200 baud and 2 MHz
MaxIrqCycles == 176

\* The cycles after which the program writes the byte
IrqWriteCycles == {0, 1}

\* Command := 0x08 (0x9002): transmit interrupt enabled
IrqEnable ==
  /\ machineCycles = 0 /\ ser.commandRegister = 0
  /\ Machine_Write(36866, 8)
  /\ UNCHANGED <<portOps, loop>>

\* Data := 0x41 (0x9000)
IrqWriteData ==
  /\ machineCycles \in IrqWriteCycles
  /\ ser.commandRegister = 8 /\ Len(ser.transmitBuffer) = 0 /\ cpuIrqCalls = 0
  /\ Machine_Write(36864, 65)
  /\ UNCHANGED <<portOps, loop>>

IrqRun ==
  /\ machineCycles < MaxIrqCycles
  /\ Machine_Tick
  /\ UNCHANGED <<portOps, loop>>

NextIrq == IrqEnable \/ IrqWriteData \/ IrqRun

SpecIrq == MachineInit /\ [][NextIrq]_vars

(***************************************************************************)
(* SpecSerial: a program and a host on the two sides of the SerialCard.    *)
(***************************************************************************)
\* Bound on the bytes waiting in a buffer of the card
MaxSerQueue == 2

\* Bound on the cycle counter of the card
MaxSerCycles == 3

\* The frequency the card is ticked with: two cycles a byte at 19200 baud
\* and none at 115200 baud (floor of 0.33), where every tick transmits
SerFrequency == 3840

\* Receive interrupt off and on, transmit interrupt on
SerCommands == {0, 4, 8}

\* 115200 baud (code 0) and 19200 baud (code 15)
SerControls == {0, 15}

SerWriteData ==
  /\ Len(ser.transmitBuffer) < MaxSerQueue
  /\ Ser_Write(0, 66)
  /\ UNCHANGED notSer

SerProgrammedReset == Ser_Write(1, 0) /\ UNCHANGED notSer

SerWriteCommand == \E c \in SerCommands : Ser_Write(2, c) /\ UNCHANGED notSer

SerWriteControl == \E c \in SerControls : Ser_Write(3, c) /\ UNCHANGED notSer

SerRead == \E r \in {0, 1} : Ser_Read(r) /\ UNCHANGED notSer

\* The card is ticked while it has a byte to transmit, and for a few cycles
\* while it has none
SerTick ==
  /\ ser.cycleCounter < MaxSerCycles \/ Len(ser.transmitBuffer) > 0
  /\ Ser_Tick(SerFrequency)
  /\ UNCHANGED notSer

SerOnData ==
  /\ Len(ser.receiveBuffer) < MaxSerQueue
  /\ Ser_OnData(85)
  /\ UNCHANGED notSer

SerReset == Ser_Reset /\ UNCHANGED notSer

NextSerial ==
  \/ SerWriteData \/ SerProgrammedReset \/ SerWriteCommand \/ SerWriteControl
  \/ SerRead \/ SerTick \/ SerOnData \/ SerReset

SpecSerial == Init /\ [][NextSerial]_vars

(***************************************************************************)
(* SpecRAMCard: the calls of a program on the banked RAM card.             *)
(***************************************************************************)
\* The bytes written to the window
RamValues == {0, 85, 255}

\* The values written to the bank control register: 257 selects bank 1
RamBankWrites == RamBanks \cup {257}

RamWriteData == \E o \in RamOffsets, v \in RamValues : Ram_Write(o, v) /\ UNCHANGED notRam

RamSwitchBank == \E b \in RamBankWrites : Ram_Write(BANK_CONTROL_REGISTER, b) /\ UNCHANGED notRam

RamRead == \E o \in RamOffsets \cup {BANK_CONTROL_REGISTER} : Ram_Read(o) /\ UNCHANGED notRam

RamTick == Ram_Tick /\ UNCHANGED notRam

RamReset == \E coldStart \in BOOLEAN : Ram_Reset(coldStart) /\ UNCHANGED notRam

NextRAMCard == RamWriteData \/ RamSwitchBank \/ RamRead \/ RamTick \/ RamReset

SpecRAMCard == Init /\ [][NextRAMCard]_vars

(***************************************************************************)
(* SpecBus: a Machine whose ROM and cart are loaded and whose bus is read  *)
(* and written.                                                            *)
(***************************************************************************)
\* The ROM files loaded
RomImages ==
  { [o \in RomOffsets |-> 170],
    [o \in RomOffsets |-> IF o = ROM_END - ROM_START THEN 255 ELSE 85] }

\* The cart file loaded
CartImages == { [o \in RomOffsets |-> 66] }

\* The addresses of the ROM that are read and written: the first of the ROM
\* code, the first the cart overlays, and the last
RomAddresses == {ROM_CODE, CART_CODE, ROM_END}

\* The writes made to the RAM and to the windows of io1, io5 and io7
BusWrites == { <<32767, 17>>, <<33791, 1>>, <<36867, 31>>, <<38912, 72>> }

BusLoadROM ==
  /\ \E data \in RomImages, length \in {ROM_SIZE, ROM_SIZE - 1} :
       Machine_LoadROM(data, length)
  /\ UNCHANGED <<portOps, loop>>

BusLoadCart ==
  /\ \E data \in CartImages : Machine_LoadCart(data)
  /\ UNCHANGED <<portOps, loop>>

\* The bytes written to the addresses of the ROM: bytes no ROM file holds
RomWriteValues == {0, 1}

BusWriteROM ==
  /\ \E address \in RomAddresses, data \in RomWriteValues : Machine_Write(address, data)
  /\ UNCHANGED <<portOps, loop>>

BusWrite ==
  /\ \E w \in BusWrites : Machine_Write(w[1], w[2])
  /\ UNCHANGED <<portOps, loop>>

BusRead ==
  /\ \E address \in RomAddresses \cup {32767, 33791, 36865} : Machine_Read(address)
  /\ UNCHANGED <<portOps, loop>>

NextBus == BusLoadROM \/ BusLoadCart \/ BusWriteROM \/ BusWrite \/ BusRead

SpecBus == MachineInit /\ [][NextBus]_vars

(***************************************************************************)
(* Properties of the VIA timers and interrupt registers (SpecVIATimer).    *)
(***************************************************************************)
T1Flag(v) == BitAnd(v.regIFR, IRQ_T1) # 0

\* C1 (as the code has it): on a new card, after IER := 0xC0, T1 low := 0x01,
\* T1 high := 0x00, the first tick sets IFR bit 6 and invokes raiseIRQ, and
\* the second tick, with the flag still set and enabled, invokes it again:
\* after the two ticks IFR bit 6 is set and raiseIRQ has been invoked twice.
C1_IrqEveryTick ==
  /\ viaScen = 4 => T1Flag(via) /\ viaIrqCalls = 1
  /\ viaScen = 5 => T1Flag(via) /\ viaIrqCalls = 2

\* C1 as stated: after the two ticks IFR bit 6 is set and raiseIRQ has been
\* invoked exactly once.
C1_IrqExactlyOnce == viaScen = 5 => T1Flag(via) /\ viaIrqCalls = 1

\* The two ticks of the C1 sequence have been made.
C1_Witness == viaScen = 5 /\ T1Flag(via) /\ viaIrqCalls = 2 /\ via.regIER = 64

IERWrite(o) == o.op = "write" /\ o.reg = VIA_IER

\* C3: a write of IER with bit 7 set adds the listed enable bits and removes
\* none (the enables after it are those before it together with the listed
\* ones); a write with bit 7 clear removes the listed bits and adds none; and
\* every read of IER returns a value with bit 7 set.
C3_IERSetClear ==
  /\ [][ IERWrite(viaOp') =>
          LET listed == Bits(viaOp'.value) \ {7}
              before == Bits(via.regIER)
              after  == Bits(via'.regIER)
          IN  IF 7 \in Bits(viaOp'.value)
              THEN after = before \cup listed
              ELSE after = before \ listed ]_vars
  /\ [](viaOp.op = "read" /\ viaOp.reg = VIA_IER => Bit(viaOp.ret, 7) = 1)

\* An IER write with bit 7 clear has removed bit 1 and has left bit 6 enabled.
C3_Witness == IERWrite(viaOp) /\ viaOp.value = 2 /\ via.regIER = 64

T1Expiring(v) == v.T1_running /\ v.regT1C = 1

inputBit(list, a, port, b) ==
  IF \A i \in 1..Len(list) :
       a[list[i]].enabled =>
         Bit(IF port = "A" THEN a[list[i]].portAValue ELSE a[list[i]].portBValue, b) = 1
  THEN 1 ELSE 0

\* C4: the value a read of port A (ORA, or ORA without handshake) or of port
\* B (ORB) returns has, in each bit, the output-register bit where the DDR
\* bit is 1 and, where it is 0, the AND of that bit over what readPortA /
\* readPortB of the enabled attachments of that port return.
C4_PortReadValue ==
  /\ viaOp.op = "read" /\ viaOp.reg \in {VIA_ORA, VIA_ORA_NH} =>
       \A b \in 0..7 :
         Bit(viaOp.ret, b) =
           IF Bit(via.regDDRA, b) = 1 THEN Bit(via.regORA, b)
           ELSE inputBit(via.portA_attachments, att, "A", b)
  /\ viaOp.op = "read" /\ viaOp.reg = VIA_ORB =>
       \A b \in 0..7 :
         Bit(viaOp.ret, b) =
           IF Bit(via.regDDRB, b) = 1 THEN Bit(via.regORB, b)
           ELSE inputBit(via.portB_attachments, att, "B", b)

\* Port A has been read with its low nibble output (0xA5) and two enabled
\* attachments reporting 0x3C and 0x66 on the high nibble: 0x25.
C4_Witness ==
  /\ viaOp.op = "read" /\ viaOp.reg = VIA_ORA /\ viaOp.ret = 37
  /\ Len(via.portA_attachments) = 2
  /\ att["encoder"].enabled /\ att["matrix"].enabled
  /\ att["encoder"].portAValue = 60 /\ att["matrix"].portAValue = 102

\* C5 as stated: a read and a write of ORA both leave the CA1 and CA2 flags
\* of IFR clear and the CA1/CA2 interrupts of every port A attachment
\* cleared; a read and a write of ORB do so for CB1/CB2 and port B.
C5_ReadAndWriteClear ==
  [][ /\ viaOp'.op \in {"read", "write"} /\ viaOp'.reg = VIA_ORA =>
          /\ BitAnd(via'.regIFR, BitOr(IRQ_CA1, IRQ_CA2)) = 0
          /\ \A id \in AttIds : onList(via'.portA_attachments, id) =>
                ~att'[id].ca1Interrupt /\ ~att'[id].ca2Interrupt
      /\ viaOp'.op \in {"read", "write"} /\ viaOp'.reg = VIA_ORB =>
          /\ BitAnd(via'.regIFR, BitOr(IRQ_CB1, IRQ_CB2)) = 0
          /\ \A id \in AttIds : onList(via'.portB_attachments, id) =>
                ~att'[id].cb1Interrupt /\ ~att'[id].cb2Interrupt ]_vars

(***************************************************************************)
(* Properties of the Machine's interrupt wiring (SpecMachine).             *)
(***************************************************************************)
\* The step is a Machine.tick that ticked the I/O cards.
IoTickStep == machineCycles' = machineCycles + 1 /\ ioCycleAccumulator' = 0

\* C2 as stated: the raiseIRQ of the GPIOCard (io6), like that of every card,
\* is wired to cpu.irq(), so each tick of the VIA that ends with
\* (IFR & IER & 0x7F) # 0 invokes cpu.irq().
C2_ViaIrqReachesCpu ==
  [][ IoTickStep /\ irqActive(via') =>
        "io6" \in irqWired /\ cpuIrqCalls' > cpuIrqCalls ]_vars

(***************************************************************************)
(* Properties of the VDP ports (SpecVDPPort).                              *)
(***************************************************************************)
\* C7 (as the code has it): after the write address is set to a, v is written,
\* and the read address is set back to a, the first read of the data port
\* returns v: it returns the byte pre-fetched when the read address was set.
C7_FirstReadReturnsWritten == vdpScen.phase = 5 => vdpOp.ret = vdpScen.v

\* C7 as stated: after the same calls, one read of the data port is discarded
\* and the read after it returns v.
C7_SecondReadReturnsWritten == vdpScen.phase = 6 => vdpOp.ret = vdpScen.v

\* The round trip has been made at address 0x3FFF with the byte 0x99.
C7_Witness ==
  vdpScen.phase = 5 /\ vdpScen.a = 16383 /\ vdpScen.v = 153 /\ vdpOp.ret = 153

\* C8: of two data-port accesses made one after the other, the second uses
\* the VRAM index after that of the first, modulo 0x4000: an access at 0x3FFF
\* is followed by an access at 0x0000, and a write stores its byte there.
C8_PointerWraps ==
  /\ vdpOp.op \in DataOps /\ vdpOp.prev >= 0 =>
       vdpOp.index = (vdpOp.prev + 1) % 16384
  /\ vdpOp.op \in DataOps /\ vdpOp.prev = 16383 => vdpOp.index = 0
  /\ vdpOp.op = "writeData" => vramAt(vdp, vdpOp.index) = vdpOp.value

\* Two bytes have been written one after the other starting at 0x3FFF.
C8_Witness ==
  /\ vdpOp.op = "writeData" /\ vdpOp.prev = 16383 /\ vdpOp.index = 0
  /\ vramAt(vdp, 16383) = 66 /\ vramAt(vdp, 0) = 153

(***************************************************************************)
(* Properties of the VDP status register and sprites (SpecVDPRender).      *)
(***************************************************************************)
\* C9: a read of the status port returns the status byte as it was and leaves
\* the status register 0, so a status read made immediately after another
\* returns 0.
C9_StatusReadClears ==
  [][ vdpOp'.op = "readStatus" =>
        /\ vdpOp'.ret = vdp.status
        /\ vdp'.status = 0
        /\ (vdpOp.op = "readStatus" => vdpOp'.ret = 0) ]_vars

\* A status read has returned the fifth-sprite flag with index 4 and cleared it.
C9_Witness == vdpOp.op = "readStatus" /\ vdpOp.ret = 68 /\ vdp.status = 0

\* C10 as stated: after a scanline on which a fifth visible sprite was found,
\* the status register has bit 6 set and its low 5 bits are that sprite's
\* index, and the scan looked at no sprite after it.
C10_FifthSpriteStatus ==
  vdpOp.op = "tick" /\ vdpScan.fifth # -1 =>
    /\ BitAnd(vdp.status, STATUS_5S) # 0
    /\ vdp.status % 32 = vdpScan.fifth
    /\ vdpScan.last = vdpScan.fifth

(***************************************************************************)
(* Properties of the StorageCard (SpecStorage).                            *)
(***************************************************************************)
\* C11: a byte read from the data register during a read-sector command
\* is the byte the program wrote at that position of that sector with a
\* write-sector command: writing a payload to a sector and reading the sector
\* returns the payload.
C11_WriteThenRead ==
  (stoOp.op = "read" /\ stoOp.reg = 0 /\ stoOp.expect # -1)
    => stoOp.ret = stoOp.expect

\* The last byte of the last sector of the card (0x03FFFF) has been read
\* back, after the sector was written with the second payload
C11_Witness ==
  /\ stoOp.op = "read" /\ stoOp.reg = 0
  /\ stoOp.expect = payloadByte(2, SECTOR_SIZE - 1)
  /\ stoOp.ret = stoOp.expect
  /\ sectorIndex(sto) = SECTOR_COUNT - 1
  /\ sto.bufferIndex = 0
  /\ ~sto.isTransferring

\* C12: a command written while DRQ is set is aborted: ERR is set in the
\* status and ABRT in the error register.
C12_CommandDuringDRQAborts ==
  (stoOp.op = "write" /\ stoOp.reg = 7 /\ stoOp.drq)
    => /\ BitAnd(sto.status, STATUS_ERR) # 0
       /\ BitAnd(sto.error, ERR_ABRT) # 0

\* A read-sector command for a valid sector has been written while the card
\* requested data
C12_Witness ==
  /\ stoOp.op = "write" /\ stoOp.reg = 7 /\ stoOp.drq
  /\ stoOp.value = 32
  /\ sectorValid(sto)
  /\ BitAnd(sto.error, ERR_ABRT) # 0

\* A read, write or erase command
SectorCommand == stoOp.op = "write" /\ stoOp.reg = 7 /\ stoOp.value \in {32, 33, 48, 49, 192}

\* C13 as stated: every read, write or erase command whose LBA is not below
\* 262144 sets ERR and IDNF and does not set DRQ.
C13_InvalidLBAAlways ==
  (SectorCommand /\ ~sectorValid(sto))
    => /\ BitAnd(sto.status, STATUS_ERR) # 0
       /\ BitAnd(sto.error, ERR_IDNF) # 0
       /\ BitAnd(sto.status, STATUS_DRQ) = 0

\* C13: a read, write or erase command whose LBA is not below 262144,
\* written while no transfer and no identify is in progress, sets ERR in the
\* status and IDNF in the error register and does not set DRQ.
C13_InvalidLBAWhenIdle ==
  (SectorCommand /\ ~sectorValid(sto) /\ ~stoOp.busy)
    => /\ BitAnd(sto.status, STATUS_ERR) # 0
       /\ BitAnd(sto.error, ERR_IDNF) # 0
       /\ BitAnd(sto.status, STATUS_DRQ) = 0

\* A write-sector command for sector 0x040000 has been refused
C13_Witness ==
  /\ SectorCommand /\ stoOp.value = 48 /\ ~stoOp.busy
  /\ sectorIndex(sto) = SECTOR_COUNT
  /\ BitAnd(sto.error, ERR_IDNF) # 0

(***************************************************************************)
(* Properties of the SerialCard (SpecSerial).                              *)
(***************************************************************************)
\* A read of the status register has just been made
StatusRead == serOp.op = "read" /\ serOp.reg = 1

\* The ticks one byte takes at the current baud rate: the counter is
\* incremented before it is compared, so a byte takes at least one tick
ticksPerByte == IF cyclesPerByte(SerFrequency, ser.baudRate) > 1
                THEN cyclesPerByte(SerFrequency, ser.baudRate) ELSE 1

\* C14: a status read made after a write to the data port, with no tick
\* (and no reset of the card) in between, shows TDRE clear; once the card
\* has been ticked (frequency/baud)*10 cycles for each byte that was waiting,
\* the TX queue is empty, and a status read made with the TX queue empty
\* shows TDRE set.
C14_TDREFollowsQueue ==
  /\ StatusRead /\ serHist.written => BitAnd(serOp.ret, 16) = 0
  /\ serHist.ticks >= serHist.pending * ticksPerByte => Len(ser.transmitBuffer) = 0
  /\ StatusRead /\ Len(ser.transmitBuffer) = 0 => BitAnd(serOp.ret, 16) # 0

\* Two bytes written at 19200 baud, two cycles a byte, have been transmitted
\* after four ticks, and the status read shows TDRE set
C14_Witness ==
  /\ StatusRead
  /\ serHist.pending = 2 /\ serHist.ticks = 4
  /\ ser.baudRate = 19200
  /\ BitAnd(serOp.ret, 16) # 0

\* C15 as stated: the status read that follows a read of the data register
\* which took a byte from the RX queue shows RDRF clear.
C15_RDRFClearAfterRead ==
  (StatusRead /\ serOp.prev = "dequeue") => BitAnd(serOp.ret, 8) = 0

\* C15: a read of the data register with bytes in the RX queue returns the
\* first of them and removes it; the status read that follows shows RDRF
\* clear exactly if the queue was left empty, and RDRF set while bytes remain.
C15_DequeueAndRDRF ==
  [][ /\ (serOp'.op = "read" /\ serOp'.reg = 0 /\ Len(ser.receiveBuffer) > 0)
           => /\ serOp'.ret = Head(ser.receiveBuffer)
              /\ ser'.receiveBuffer = Tail(ser.receiveBuffer)
      /\ (serOp'.op = "read" /\ serOp'.reg = 1 /\ serOp'.prev = "dequeue")
           => (BitAnd(serOp'.ret, 8) = 0 <=> Len(ser.receiveBuffer) = 0) ]_vars

\* A byte has been read with another one behind it, and the status read that
\* followed shows RDRF set
C15_Witness ==
  /\ StatusRead /\ serOp.prev = "dequeue"
  /\ Len(ser.receiveBuffer) = 1
  /\ BitAnd(serOp.ret, 8) # 0

\* A read of the data register has just taken the last byte of the RX queue
LastByteRead ==
  serOp.op = "read" /\ serOp.reg = 0 /\ serOp.deq /\ Len(ser.receiveBuffer) = 0

\* C16 as stated: a read of the data register that leaves the RX queue empty
\* clears the IRQ flag.
C16_IrqClearedAlways == LastByteRead => (~ser.irqFlag /\ BitAnd(statusByte(ser), 128) = 0)

\* C16: a read of the data register that takes the last byte of the RX
\* queue clears the IRQ flag (status bit 7) if the receive interrupt is
\* enabled (command bit 2); with the receive interrupt disabled the flag is
\* left as it was.
C16_IrqClearedIfEnabled ==
  LastByteRead =>
    IF BitAnd(ser.commandRegister, 4) # 0
    THEN ~ser.irqFlag /\ BitAnd(statusByte(ser), 128) = 0
    ELSE ser.irqFlag = serOp.irqWas

\* The IRQ flag was set, the receive interrupt is enabled, and the read of
\* the last byte has cleared the flag
C16_Witness ==
  /\ LastByteRead
  /\ serOp.irqWas
  /\ BitAnd(ser.commandRegister, 4) # 0
  /\ ~ser.irqFlag

\* C17 as stated: the status read that follows a programmed reset shows
\* TDRE set, no error bit and no IRQ bit.
C17_TDRESetAfterReset ==
  (StatusRead /\ serOp.prev = "programmedReset")
    => /\ BitAnd(serOp.ret, 16) # 0
       /\ BitAnd(serOp.ret, 7) = 0
       /\ BitAnd(serOp.ret, 128) = 0

\* C17: a programmed reset leaves the RX and TX FIFOs as they are; the
\* status read that follows shows no error bit and no IRQ bit, and shows TDRE
\* set exactly if the TX FIFO is empty.
C17_ResetKeepsFIFOs ==
  [][ /\ (serOp'.op = "write" /\ serOp'.reg = 1)
           => /\ ser'.transmitBuffer = ser.transmitBuffer
              /\ ser'.receiveBuffer = ser.receiveBuffer
      /\ (serOp'.op = "read" /\ serOp'.reg = 1 /\ serOp'.prev = "programmedReset")
           => /\ BitAnd(serOp'.ret, 7) = 0
              /\ BitAnd(serOp'.ret, 128) = 0
              /\ (BitAnd(serOp'.ret, 16) # 0 <=> Len(ser.transmitBuffer) = 0) ]_vars

\* A programmed reset was made with a byte waiting in the TX FIFO and two in
\* the RX FIFO, and the status read that followed shows TDRE clear
C17_Witness ==
  /\ StatusRead /\ serOp.prev = "programmedReset"
  /\ Len(ser.transmitBuffer) = 1 /\ Len(ser.receiveBuffer) = 2
  /\ BitAnd(serOp.ret, 16) = 0

(***************************************************************************)
(* Properties of the RAMCard (SpecRAMCard).                                *)
(***************************************************************************)
\* C18: every bank b and offset o in [0, 0x3FE] holds the byte last written
\* at (b, o), whatever has been written since to the other banks and
\* offsets: a read of offset o with bank b selected returns that byte, and a
\* write at (b', o) changes no byte of another bank b.
C18_BanksIsolated ==
  /\ \A b \in RamBanks, o \in RamOffsets :
        ramRead([ram EXCEPT !.currentBank = b], o) = ramShadow[b][o]
  /\ (ramOp.op = "read" /\ ramOp.address # BANK_CONTROL_REGISTER)
        => ramOp.ret = ramShadow[ramOp.bank][ramOp.address]
  /\ (ramOp.op = "read" /\ ramOp.address = BANK_CONTROL_REGISTER)
        => ramOp.ret = ramOp.bank

\* Offset 0x3FE has been written in bank 0 and then in bank 255 with another
\* byte, and the read made after switching back to bank 0 returns the first
C18_Witness ==
  /\ ramOp.op = "read" /\ ramOp.bank = 0 /\ ramOp.address = BANK_CONTROL_REGISTER - 1
  /\ ramOp.ret = 85
  /\ ramShadow[NUM_BANKS - 1][BANK_CONTROL_REGISTER - 1] = 255
  /\ ramShadow[1][0] = 85

(***************************************************************************)
(* Properties of the Machine bus (SpecBus) and of Machine.tick             *)
(* (SpecMachine).                                                          *)
(***************************************************************************)
\* C19: whatever is written through the bus to the addresses of the ROM, the
\* ROM holds the content it was loaded with, and a read of an address the
\* ROM serves (0xA000-0xFFFF, less 0xC000-0xFFFF when a cart is present)
\* returns the byte of that content.
C19_RomWriteImmune ==
  /\ rom = romLoaded
  /\ (/\ busOp.op = "read"
      /\ busOp.address >= ROM_CODE /\ busOp.address <= ROM_END
      /\ ~(cart # NoCart /\ busOp.address >= CART_CODE))
       => busOp.ret = romLoaded[busOp.address - ROM_START]

\* 0xFFFF and 0xA000 have been written after the ROM was loaded, with 0x00
\* or 0x01, and the read of 0xFFFF returns the 0xFF of the ROM file
C19_Witness ==
  /\ busOp.op = "read" /\ busOp.address = ROM_END /\ busOp.ret = 255
  /\ ROM_END \in busOp.romWrites
  /\ ROM_CODE \in busOp.romWrites
  /\ romLoaded[ROM_CODE - ROM_START] = 85
  /\ cart = NoCart

\* C20: every cycle of Machine.tick ticks the SerialCard (io5) once, and the
\* RTCCard (io3), the StorageCard (io4), the GPIOCard (io6), the SoundCard
\* (io7) and the VideoCard (io8) have each been ticked once for every 128
\* cycles run.
C20_TickRates ==
  [][ machineCycles' = machineCycles + 1 =>
        /\ ioTicks'["io5"] = ioTicks["io5"] + 1
        /\ ioTicks'["io5"] = machineCycles'
        /\ serOp'.op = "tick"
        /\ \A c \in {"io3", "io4", "io6", "io7", "io8"} :
              ioTicks'[c] = machineCycles' \div 128
        /\ (machineCycles' % 128 = 0) => (viaOp'.op = "tick" /\ vdpOp'.op = "tick") ]_vars

\* 256 cycles have been run: the SerialCard has been ticked 256 times, the
\* other cards twice
C20_Witness ==
  /\ machineCycles = 256
  /\ ioTicks["io5"] = 256
  /\ \A c \in {"io3", "io4", "io6", "io7", "io8"} : ioTicks[c] = 2

(***************************************************************************)
(* Properties of multi-sector transfers (SpecStorageMulti).                *)
(***************************************************************************)
\* A byte of a read or write transfer has just passed through the data port
TransferByte ==
  /\ stoOp.reg = 0 /\ stoOp.op \in {"read", "write"}
  /\ stoOp.kind \in {"read", "write"}

C30_TransferFixedAtCommand ==
  /\ (TransferByte /\ stoOp.sectors >= 1)
       => (stoDRQ <=> stoOp.count + 1 < stoOp.sectors * SECTOR_SIZE)
  /\ (TransferByte /\ stoOp.op = "read" /\ stoOp.expect # -1)
       => stoOp.ret = stoOp.expect

(***************************************************************************)
(* Properties of a card driven out of protocol (SpecStorageRaw).           *)
(***************************************************************************)
\* C27 as stated: after a command has been aborted because a transfer or an
\* identify was in progress, the next read-sector, write-sector or identify
\* command for a sector of the card is accepted: it sets DRQ and no error.
C27_IdleAfterAbort ==
  [][ (/\ stoOp.op = "write" /\ stoOp.reg = 7 /\ stoOp.busy
       /\ stoOp'.op = "write" /\ stoOp'.reg = 7
       /\ stoOp'.value \in {32, 33, 48, 49, 236}
       /\ sectorValid(sto'))
        => /\ BitAnd(sto'.status, STATUS_DRQ) # 0
           /\ BitAnd(sto'.status, STATUS_ERR) = 0 ]_vars

\* C28 as stated: the stored sectors change only with a byte written to the
\* data register during the transfer of an accepted write-sector command, or
\* with an erase command.
C28_StorageChangesOnlyByWrite ==
  [][ sto'.storage # sto.storage
        => \/ /\ stoOp'.op = "write" /\ stoOp'.reg = 0
              /\ sto.isTransferring /\ sto.command \in {48, 49}
           \/ /\ stoOp'.op = "write" /\ stoOp'.reg = 7 /\ stoOp'.value = 192 ]_vars

C22_WatchdogExpiry ==
  [][ (/\ rtcOp'.op = "tick"
       /\ rtc.watchdogCounterCentis > 0
       /\ rtc'.watchdogCounterCentis = 0)
        => /\ BitAnd(rtc'.controlA, RTC_WDF) # 0
           /\ BitAnd(rtc.controlB, RTC_WDS) = 0
                => /\ rtcIrqCalls' = rtcIrqCalls + 1
                   /\ rtcNmiCalls' = rtcNmiCalls
           /\ BitAnd(rtc.controlB, RTC_WDS) # 0
                => /\ rtcNmiCalls' = rtcNmiCalls + 1
                   /\ rtcIrqCalls' = rtcIrqCalls
                   /\ BitAnd(rtc'.controlB, RTC_WDE) = 0 ]_vars

\* The watchdog has expired with WDS = 1 after it had expired with WDS = 0
C22_Witness ==
  /\ rtcOp.op = "tick" /\ rtcOp.nmis = 1
  /\ rtc.watchdogCounterCentis = 0
  /\ BitAnd(rtc.controlA, RTC_WDF) # 0
  /\ BitAnd(rtc.controlA, RTC_IRQF) # 0
  /\ rtc.controlB = RTC_WDS
  /\ rtcIrqCalls = 1 /\ rtcNmiCalls = 1

(***************************************************************************)
(* The rates of the timers under the Machine (SpecMachine).                *)
(***************************************************************************)
\* C25 as stated: each cycle the Machine executes takes exactly 1 from a
\* running one-shot T1 counter of the VIA.
C25_T1PerCpuCycle ==
  [][ (/\ machineCycles' = machineCycles + 1
       /\ via.T1_running /\ via.regT1C > 0
       /\ BitAnd(via.regACR, 64) = 0)
        => via'.regT1C = via.regT1C - 1 ]_vars

\* C26 as stated: with WDE set since cycle 0 of the Machine, the watchdog
\* counter is the count set less one unit for every frequency/100 cycles
\* the Machine has executed, down to zero (SpecWatchdog).
C26_WatchdogPer10ms ==
  BitAnd(rtc.controlB, RTC_WDE) # 0
    => LET units == machineCycles \div (frequency \div 100)
           count == decodeWatchdogCentis(rtc)
       IN  rtc.watchdogCounterCentis = IF units < count THEN count - units ELSE 0

(***************************************************************************)
(* The attachments over a reset of the VIA (SpecVIAPort).                  *)
(***************************************************************************)
\* C24 as stated, for the lists of the two ports: a reset of the VIA leaves
\* every attachment attached to the port it was attached to.  (The claim
\* adds that reset() of each attachment has been called; the card calls the
\* reset() of the attachments still in its lists.)
C24_ResetKeepsAttachments ==
  [][ viaOp'.op = "reset"
        => /\ via'.portA_attachments = via.portA_attachments
           /\ via'.portB_attachments = via.portB_attachments ]_vars

(***************************************************************************)
(* The interrupts of the cards and the CPU (SpecIrq).                      *)
(***************************************************************************)
\* C21 as stated: an interrupt a card raises in its tick is entered by the
\* CPU only with no cycle of the current instruction left to consume.
C21_InterruptAtBoundary ==
  cpuOp.op = "tick" => cpuOp.rem = 0


(***************************************************************************)
(* Overrun of the ACIA (SpecSerial).                                       *)
(***************************************************************************)
\* C31 as stated: a byte that onData delivers while a byte received before
\* it is still unread, so that RDRF reads set, sets the overrun flag (status
\* bit 2).
C31_OverrunWhenUnread ==
  [][ (serOp'.op = "onData" /\ Len(ser.receiveBuffer) > 0)
        => (ser'.overrun /\ BitAnd(statusByte(ser'), 4) # 0) ]_vars


(***************************************************************************)
(* The status register over a frame (SpecVDPFrame, where a tick is one     *)
(* scanline and no sprite is on scanline 0).                               *)
(***************************************************************************)
\* C32 as stated: the scanline 0 of a frame leaves the status register
\* cleared.
C32_StatusClearedAtScanline0 ==
  [][ (vdpOp'.op = "tick" /\ vdp.currentScanline = 0) => vdp'.status = 0 ]_vars

\* C33: scanline 191 sets status bit 7 and calls raiseIRQ once if the
\* interrupt-enable bit of register 1 is set; if the bit is clear raiseIRQ
\* is not called and status bit 7 is left as it was.
C33_FrameInterrupt ==
  [][ (vdpOp'.op = "tick" /\ vdp.currentScanline = TMS_PIXELS_Y - 1)
        => IF BitAnd(vdp.registers[TMS_REG_1], TMS_R1_INT_ENABLE) # 0
           THEN /\ BitAnd(vdp'.status, STATUS_INT) # 0
                /\ vdpIrqCalls' = vdpIrqCalls + 1
           ELSE /\ BitAnd(vdp'.status, STATUS_INT) = BitAnd(vdp.status, STATUS_INT)
                /\ vdpIrqCalls' = vdpIrqCalls ]_vars

\* Scanline 191 has just been processed with the interrupt enabled: status
\* bit 7 is set and raiseIRQ has been called once
C33_Witness ==
  /\ vdpOp.op = "tick" /\ vdp.currentScanline = TMS_PIXELS_Y
  /\ BitAnd(vdp.registers[TMS_REG_1], TMS_R1_INT_ENABLE) # 0
  /\ BitAnd(vdp.status, STATUS_INT) # 0
  /\ vdpIrqCalls = 1


(***************************************************************************)
(* The latch of the control port (SpecVDPPort).                            *)
(***************************************************************************)
\* A read or a write of the data port, or a read of the status
PortAccessOps == {"readData", "writeData", "readStatus"}

\* C34: a data-port read or write and a status read leave the latch of the
\* control port at stage 0; the control-port write that follows one of them
\* is taken as a first byte: it is latched, and it writes no register and
\* sets no address.
C34_AccessResetsLatch ==
  [][ /\ vdpOp'.op \in PortAccessOps => vdp'.regWriteStage = 0
      /\ (vdpOp.op \in PortAccessOps /\ vdpOp'.op \notin PortAccessOps)
            => /\ vdpOp'.op = "latch"
               /\ vdp'.regWriteStage = 1
               /\ vdp'.regWriteStage0Value = vdpOp'.value
               /\ vdp'.registers = vdp.registers
               /\ vdp'.currentAddress = vdp.currentAddress ]_vars

\* A first byte (0x3F) was latched and never completed (no register was
\* written and no address was set with it), and the one read of the data
\* port made, the last call, has left the latch at stage 0
C34_Witness ==
  /\ vdpOp.op = "readData"
  /\ vdp.regWriteStage = 0 /\ vdp.regWriteStage0Value = 63
  /\ vdp.registers[7] = 0 /\ vdp.currentAddress = 1


(***************************************************************************)
(* The timers of the VIA expire (SpecVIALive).                             *)
(***************************************************************************)
\* C35 as stated: a timer started by a write of its high-byte counter
\* register, whatever its latch holds, 0x0000 included, eventually has its
\* flag set in IFR while the card keeps being ticked.
C35_TimersExpire ==
  /\ (viaOp.op = "write" /\ viaOp.reg = VIA_T1CH) ~> (BitAnd(via.regIFR, IRQ_T1) # 0)
  /\ (viaOp.op = "write" /\ viaOp.reg = VIA_T2CH) ~> (BitAnd(via.regIFR, IRQ_T2) # 0)


(***************************************************************************)
(* The interrupts of the keyboard encoder (SpecEncoder).                   *)
(***************************************************************************)
\* C36 as stated: while a port of the encoder is enabled and has data ready,
\* its CA1 (port A) or CB1 (port B) interrupt is pending.
C36_ReadyMeansPending ==
  /\ hasDataReadyA(enc) => encHasCA1Interrupt(enc)
  /\ hasDataReadyB(enc) => encHasCB1Interrupt(enc)

\* C37 as stated: a key press that makes data ready on an enabled port makes
\* the interrupt of that port pending, and after a read of the port data
\* register of the VIA (ORA for CA1, ORB for CB1) the interrupt of that port
\* is no longer pending.
C37_PendingUntilRead ==
  [][ /\ (encOp'.op = "updateKey" /\ encOp'.output)
           => /\ enc'.enabledA => encHasCA1Interrupt(enc')
              /\ enc'.enabledB => encHasCB1Interrupt(enc')
      /\ (encOp'.op = "read" /\ viaOp'.reg = VIA_ORA) => ~encHasCA1Interrupt(enc')
      /\ (encOp'.op = "read" /\ viaOp'.reg = VIA_ORB) => ~encHasCB1Interrupt(enc') ]_vars

\* C38: in each iteration of the main loop the time owed, the accumulator
\* plus the time elapsed, is clamped to 250 ms before any tick is run; the
\* ticks run are the whole number of CPU cycles in it; and when the
\* iteration is over the accumulator holds the fraction of a cycle left.
C38_LoopAccumulator ==
  LET owed    == loop.before + loop.elapsedMs * loop.frequency
      limit   == 250 * loop.frequency
      clamped == IF owed > limit THEN limit ELSE owed
  IN /\ loop.ticksToRun = clamped \div 1000
     /\ loop.pos = "ticking" =>
          /\ loop.accumulator = clamped
          /\ machineCycles = loop.startCycles + loop.ticksToRun - loop.left
     /\ loop.pos = "idle" =>
          /\ loop.accumulator = clamped % 1000
          /\ machineCycles = loop.startCycles + loop.ticksToRun

\* An iteration that was owed more than 250 ms is over: 100 cycles have been
\* run and half a cycle is kept
C38_Witness ==
  /\ loop.pos = "idle"
  /\ loop.elapsedMs = 300
  /\ loop.before > 0
  /\ loop.ticksToRun = 100
  /\ machineCycles = loop.startCycles + 100
  /\ loop.accumulator = 500


\* C39: the noise LFSR of every voice is never zero, whatever registers
\* have been written, whether the test bit has been set or cleared,
\* however often the card has been reset and its oscillators clocked.
C39_NoiseNeverZero == \A i \in VoiceIndexes : voices[i].noiseShift # 0

\* Voice 1 has run for three ticks at the frequency 0xFF00 and its LFSR has
\* been clocked 24 times, so that every bit it holds has come from the
\* feedback
C39_Witness ==
  /\ sndOp.op = "tick"
  /\ portOps = 3
  /\ voices[0].frequency = 65280
  /\ voices[0].accumulator = (3 * SID_CYCLES_PER_TICK * 65280) % (2 ^ 24)
  /\ voices[0].noiseShift = noiseClock(noiseClock(noiseClock(noiseClock(
       noiseClock(noiseClock(noiseClock(noiseClock(noiseClock(noiseClock(
       noiseClock(noiseClock(noiseClock(noiseClock(noiseClock(noiseClock(
       noiseClock(noiseClock(noiseClock(noiseClock(noiseClock(noiseClock(
       noiseClock(noiseClock(NOISE_SHIFT_INIT))))))))))))))))))))))))

\* C40: after any sequence of attach calls the attachment list of each
\* port holds at most 8 attachments, in non-decreasing order of priority.
C40_ListsSortedAndBounded ==
  \A list \in {via.portA_attachments, via.portB_attachments} :
    /\ Len(list) <= 8
    /\ \A i \in 1..(Len(list) - 1) : AttPriority(list[i]) <= AttPriority(list[i + 1])

\* Port A is full with joysticks and encoders attached in both orders, and
\* an attach of the matrix, which is on neither list, has just been refused
C40_Witness ==
  /\ viaOp.op = "attach" /\ viaOp.value = "matrix"
  /\ Len(via.portA_attachments) = 8
  /\ via.portB_attachments = << >>
  /\ ~onList(via.portA_attachments, "matrix")
  /\ via.portA_attachments[1] = "encoder"
  /\ via.portA_attachments[8] = "joystick"


====
